---- MODULE Spec2Model ----
(***************************************************************************)
(* State-machine model of the multi-account posting orchestrator of        *)
(* src/services/twitter_service_new.js: the posting attempt chain          *)
(* (postTweetWithClient), the failure queue (saveFailedTweet), the history *)
(* store (saveTweetHistory, getTweetHistory), the adaptive delay           *)
(* (calculateSmartDelay), the dispatch loop (postTweetToAllAccounts), the  *)
(* retry sweep (retryFailedTweets), the account pool                       *)
(* (readAccountsFromFile, lazyLoadTwitterClient), the scheduler            *)
(* (scheduleRuns, run), the content generator (generateTweet,              *)
(* selectSmartTemplate) and the files that run creates when they are       *)
(* missing (accounts.txt, content_templates.json).                         *)
(*                                                                         *)
(* Conventions.                                                            *)
(*  - A JavaScript string is a sequence of one-character strings, so that  *)
(*    length, includes, indexOf and substring are computed, not assumed.   *)
(*  - An optional value (undefined / missing property) is <<>>, a present  *)
(*    value v is <<v>>.                                                    *)
(*  - An async function is cut at its awaits: one action per segment that  *)
(*    runs between two suspension points.                                  *)
(*  - The publish transport (client.v2.tweet) answers with a response      *)
(*    object or rejects with an Error object carrying an optional numeric  *)
(*    code and a string message, as twitter-api-v2 does.                   *)
(*  - The timestamp field of stored records (new Date().toISOString()) is  *)
(*    left out: no operation of the program reads it.                      *)
(***************************************************************************)
EXTENDS Integers, Sequences, FiniteSets, TLC

VARIABLES
  simEnv,          \* process.env.SIMULATION_MODE === 'true'
  clock,           \* the wall clock: index of its current reading
  failedTweets,    \* failed_tweets.json: sequence of [text, accountNumber]
  history,         \* tweet_history.json: sequence of [text, accounts]
  pc,              \* position of the running postTweetWithClient chain
  tweetText,       \* parameter tweetText of the current invocation
  clientObj,       \* parameter twitterClientObj
  config,          \* parameter config
  retryCount,      \* parameter retryCount of the current invocation
  uniqueTweet,     \* local uniqueTweet of the duplicate branch (line 392)
  result,          \* what the outermost promise settled to
  lastOutcome,     \* the transport outcome handled last in this chain
  calls,           \* observation: texts handed to client.v2.tweet, in order
  sleeps,          \* observation: the sleep(ms) calls of this chain, in order
  origText,        \* observation: tweetText of the outermost invocation
  origRetry,       \* observation: retryCount of the outermost invocation
  failedBefore,    \* observation: failedTweets when the chain started
  dpc,             \* position of postTweetToAllAccounts
  dText,           \* its parameter tweetText
  twitterClients,  \* its parameter twitterClients (the account pool)
  dIdx,            \* index of the loop variable clientObj in twitterClients
  results,         \* its local results
  delayMs,         \* its local delayMs: the pacing wait in progress, else 0
  accountsFile,    \* accounts.txt: sequence of lines
  spc,             \* position of retryFailedTweets
  localFailedTweets, \* its local failedTweets (line 514)
  tweetsByAccount, \* its local tweetsByAccount, in key order
  gIdx,            \* index of the group of the outer loop (line 540)
  tIdx,            \* index of the tweet of the inner loop (line 555)
  replayed,        \* observation: the replays of the sweep and their outcome
  writes,          \* observation: number of saveTweetHistory calls made
  runs,            \* the runs started by scheduleRuns, in start order
  templatesExist,  \* content_templates.json exists
  templates,       \* content_templates.json: the list of templates, if any
  selected         \* observation: what selectSmartTemplate returned last

chainVars == <<pc, tweetText, clientObj, config, retryCount, uniqueTweet,
               result, lastOutcome, calls, sleeps, origText, origRetry,
               failedBefore>>
dispatchVars == <<dpc, dText, twitterClients, dIdx, results, delayMs>>
sweepVars == <<accountsFile, spc, localFailedTweets, tweetsByAccount, gIdx,
               tIdx, replayed>>
templateVars == <<templatesExist, templates, selected>>
vars == <<simEnv, clock, failedTweets, history, chainVars, dispatchVars,
          sweepVars, writes, runs, templateVars>>

----------------------------------------------------------------------------
(* Bounds of the model *)

\* largest retry budget handed to an attempt chain
MaxRetry == 2
\* number of accounts of the credential list
MaxAccounts == 2
\* number of saveTweetHistory calls made on one stored history
MaxWrites == 3
\* number of runs that scheduleRuns starts
MaxRuns == 2

----------------------------------------------------------------------------
(* Program constants *)

MaxTweetLength == 280
RateLimitStatus == 429
RateLimitCode == 88
DuplicateCode == 187
ForbiddenStatus == 403
DefaultRetryDelay == 300
DuplicatePauseMs == 2000
HistoryCap == 100
RecentWindow == 20
BaseDelayMs == 30000
HighDelayMs == 60000
MidDelayMs == 45000

----------------------------------------------------------------------------
(* Strings *)

Chars(n, c) == [i \in 1..n |-> c]

Tag == <<"@", "g", "i", "v", "e", "r", "e", "p">>

OccursAt(s, pat, i) ==
  /\ i + Len(pat) - 1 <= Len(s)
  /\ SubSeq(s, i, i + Len(pat) - 1) = pat

\* String.prototype.indexOf, 1-based; 0 stands for JavaScript's -1
indexOf(s, pat) ==
  IF \E i \in 1..Len(s) : OccursAt(s, pat, i)
  THEN CHOOSE i \in 1..Len(s) :
         OccursAt(s, pat, i) /\ \A j \in 1..(i - 1) : ~OccursAt(s, pat, j)
  ELSE 0

includes(s, pat) == indexOf(s, pat) # 0

\* new Date().toISOString().slice(11, 19): the readings the wall clock of
\* the model goes through, one after the other and round again; every
\* sleep of the program moves it to the next reading
Readings == << <<"0", "9", ":", "1", "5", ":", "0", "0">>,
               <<"0", "9", ":", "2", "0", ":", "0", "2">>,
               <<"2", "3", ":", "5", "9", ":", "5", "9">> >>
Times == { Readings[i] : i \in 1..Len(Readings) }
Tick(c) == (c % Len(Readings)) + 1

\* Mutate with the marker always put at the end
MutateAppendOnly(text, ts) == text \o <<" ", "[">> \o ts \o <<"]">>
\* lines 392-400: the text of the duplicate retry, ts the clock reading
Mutate(text, ts) ==
  IF includes(text, Tag)
  THEN LET tagIndex == indexOf(text, Tag) IN
       SubSeq(text, 1, tagIndex - 1) \o <<"[">> \o ts \o <<"]", " ">>
         \o SubSeq(text, tagIndex, Len(text))
  ELSE text \o <<" ", "[">> \o ts \o <<"]">>

----------------------------------------------------------------------------
(* Values *)

NoValue == <<>>
Some(v) == <<v>>
\* no call of selectSmartTemplate has returned yet
NoSelection ==
  [returned |-> FALSE, template |-> NoValue, scores |-> <<>>]

\* a || d for an optional number: undefined and 0 are falsy
OrDefault(o, d) == IF o = NoValue \/ o[1] = 0 THEN d ELSE o[1]

\* lines 30-38 and 644-652: { client: new TwitterApi({appKey, ...}),
\* accountNumber }; the client is known by the appKey it was built with
MkHandle(n, appKey) ==
  [defined |-> TRUE, accountNumber |-> n, appKey |-> appKey]
\* the handle of the n-th account of a list whose n-th appKey is "k" n times
Handle(n) == MkHandle(n, Chars(n, "k"))
\* no handle: clientObj while no call is running (as a parameter it is
\* twitterClientObj === undefined, which no caller passes: line 474 hands
\* over an element of the pool and line 559 a handle that was resolved)
NoHandle == [defined |-> FALSE, accountNumber |-> 0, appKey |-> <<>>]

\* the messages of the errors of the model
Messages ==
  [tooManyRequests |->
     <<"T", "o", "o", " ", "M", "a", "n", "y", " ", "R", "e", "q", "u", "e",
      "s", "t", "s">>,
   rateLimitExceeded |->
     <<"R", "a", "t", "e", " ", "l", "i", "m", "i", "t", " ", "e", "x", "c",
      "e", "e", "d", "e", "d">>,
   duplicateStatus |->
     <<"S", "t", "a", "t", "u", "s", " ", "i", "s", " ", "a", " ", "d", "u",
      "p", "l", "i", "c", "a", "t", "e">>,
   forbidden |->
     <<"F", "o", "r", "b", "i", "d", "d", "e", "n">>,
   socketHangUp |->
     <<"s", "o", "c", "k", "e", "t", " ", "h", "a", "n", "g", " ", "u", "p">>,
   emptyText |->
     <<"T", "w", "e", "e", "t", " ", "t", "e", "x", "t", " ", "i", "s", " ",
      "e", "m", "p", "t", "y">>,
   tooLong |->
     <<"T", "w", "e", "e", "t", " ", "t", "e", "x", "t", " ", "e", "x", "c",
      "e", "e", "d", "s", " ", "m", "a", "x", "i", "m", "u", "m", " ", "l",
      "e", "n", "g", "t", "h", " ", "o", "f", " ", "2", "8", "0", " ", "c",
      "h", "a", "r", "a", "c", "t", "e", "r", "s">>,
   invalidResponse |->
     <<"I", "n", "v", "a", "l", "i", "d", " ", "r", "e", "s", "p", "o", "n",
      "s", "e", " ", "f", "r", "o", "m", " ", "T", "w", "i", "t", "t", "e",
      "r", " ", "A", "P", "I">>,
   notDefined |->
     <<"a", "c", "c", "o", "u", "n", "t", "N", "u", "m", "b", "e", "r", " ",
      "i", "s", " ", "n", "o", "t", " ", "d", "e", "f", "i", "n", "e", "d">>,
   cannotDestructure |->
     <<"C", "a", "n", "n", "o", "t", " ", "d", "e", "s", "t", "r", "u", "c",
      "t", "u", "r", "e">>,
   unknownError |->
     <<"U", "n", "k", "n", "o", "w", "n", " ", "e", "r", "r", "o", "r">>]

\* the words that parseTwitterError looks for in a message (lines 123-132)
Words ==
  [authentication |->
     <<"a", "u", "t", "h", "e", "n", "t", "i", "c", "a", "t", "i", "o", "n">>,
   permission |->
     <<"p", "e", "r", "m", "i", "s", "s", "i", "o", "n">>,
   rateLimit |->
     <<"r", "a", "t", "e", " ", "l", "i", "m", "i", "t">>]

MkError(code, message) == [code |-> code, message |-> message]

\* what client.v2.tweet can answer: a response whose data.id is a non-empty
\* string, an empty string or missing, or a rejection with a provider error
Response(id) == [kind |-> "response", id |-> id, error |-> NoValue]
Rejection(code, message) ==
  [kind |-> "error", id |-> NoValue, error |-> Some(MkError(code, message))]
NoOutcome == [kind |-> "none", id |-> NoValue, error |-> NoValue]

\* a tweet id as the provider issues it
ProviderId == <<"1", "8", "4", "9">>

Outcomes ==
  { Response(Some(ProviderId)), Response(Some(<<>>)), Response(NoValue),
    Rejection(Some(RateLimitStatus), Messages.tooManyRequests),
    Rejection(Some(RateLimitCode), Messages.rateLimitExceeded),
    Rejection(Some(DuplicateCode), Messages.duplicateStatus),
    Rejection(Some(ForbiddenStatus), Messages.forbidden),
    Rejection(NoValue, Messages.socketHangUp) }

\* "https://twitter.com/i/status/"
UrlBase ==
  <<"h", "t", "t", "p", "s", ":", "/", "/", "t", "w", "i", "t", "t",
     "e", "r", ".", "c", "o", "m", "/", "i", "/", "s", "t", "a", "t",
     "u", "s", "/">>

\* "simulated-tweet-", "simulated-", "simulated", "unknown"
SimulatedTweetPrefix ==
  <<"s", "i", "m", "u", "l", "a", "t", "e", "d", "-", "t", "w", "e",
     "e", "t", "-">>
SimulatedPrefix ==
  <<"s", "i", "m", "u", "l", "a", "t", "e", "d", "-">>
SimulatedWord ==
  <<"s", "i", "m", "u", "l", "a", "t", "e", "d">>
UnknownId ==
  <<"u", "n", "k", "n", "o", "w", "n">>

\* Date.now() as decimal digits: the clock reading of the model
Now == <<"1", "7", "3", "0">>

NoResult ==
  [settled |-> "pending", success |-> FALSE, simulated |-> FALSE,
   id |-> NoValue, tweetUrl |-> NoValue, error |-> NoValue,
   accountNumber |-> NoValue]

\* lines 328-338
SimulatedResult(acct) ==
  [settled |-> "resolved", success |-> TRUE, simulated |-> TRUE,
   id |-> Some(SimulatedTweetPrefix \o Now), tweetUrl |-> NoValue,
   error |-> NoValue, accountNumber |-> Some(acct)]

\* lines 365-370
SuccessResult(acct, id) ==
  [settled |-> "resolved", success |-> TRUE, simulated |-> FALSE,
   id |-> id, tweetUrl |-> Some(UrlBase \o id[1]),
   error |-> NoValue, accountNumber |-> Some(acct)]

\* lines 410-414
FailureResult(acct, err) ==
  [settled |-> "resolved", success |-> FALSE, simulated |-> FALSE,
   id |-> NoValue, tweetUrl |-> NoValue,
   error |-> Some(err), accountNumber |-> Some(acct)]

\* lines 416-423: the handler of the outer try reads accountNumber, a const
\* of the try block that is not in scope in the catch block: evaluating the
\* template literal throws a ReferenceError and the promise rejects
OuterCatch(err) ==
  [settled |-> "rejected", success |-> FALSE, simulated |-> FALSE,
   id |-> NoValue, tweetUrl |-> NoValue,
   error |-> Some(MkError(NoValue, Messages.notDefined)),
   accountNumber |-> NoValue]

----------------------------------------------------------------------------
(* parseTwitterError, lines 51-136. The message it returns (line 135,      *)
(* "<cross mark> Twitter Error (Account #N): <explanation> <suggestion>")  *)
(* is given by the three values that the template prints.                  *)

\* lines 53-54: the explanation and the suggestion it starts with
DefaultAdvice(accountNumber) ==
  [explanation |-> "Twitter account #" \o ToString(accountNumber)
                     \o " encountered an error.",
   suggestion |-> "Please try again later."]

\* lines 57-118: if (error.code) switch (error.code)
CodeAdvice(code, accountNumber) ==
  CASE code = Some(32) ->
         [explanation |-> "Authentication error.",
          suggestion |-> "Check your Twitter API credentials in "
                           \o "accounts.txt."]
    [] code = Some(88) ->
         [explanation |-> "Rate limit exceeded.",
          suggestion |-> "Wait a while before trying again or "
                           \o "increase the delay between requests."]
    [] code = Some(89) ->
         [explanation |-> "Token invalid or expired.",
          suggestion |-> "Regenerate your access token and update "
                           \o "accounts.txt."]
    [] code = Some(99) ->
         [explanation |-> "Invalid or expired token.",
          suggestion |-> "Regenerate your access token and update "
                           \o "accounts.txt."]
    [] code = Some(161) ->
         [explanation |-> "You don't have permission to follow.",
          suggestion |-> "Check if your app has the proper "
                           \o "permissions."]
    [] code = Some(179) ->
         [explanation |-> "Not authorized to view this tweet or "
                            \o "account.",
          suggestion |-> "The account may be private or suspended."]
    [] code = Some(187) ->
         [explanation |-> "Duplicate tweet content.",
          suggestion |-> "Modify the tweet text to make it unique."]
    [] code = Some(215) ->
         [explanation |-> "Bad authentication data.",
          suggestion |-> "Verify your API credentials in accounts.txt."]
    [] code = Some(226) ->
         [explanation |-> "Tweet content appears automated.",
          suggestion |-> "Make your tweet content more unique."]
    [] code = Some(261) ->
         [explanation |-> "Application is not permitted to perform "
                            \o "this action.",
          suggestion |-> "Verify your app has the necessary "
                           \o "permissions."]
    [] code = Some(326) ->
         [explanation |-> "Account temporarily locked.",
          suggestion |-> "Check your Twitter account for any security "
                           \o "notices."]
    [] code = Some(401) ->
         [explanation |-> "Unauthorized access.",
          suggestion |-> "Check your API credentials and account "
                           \o "permissions."]
    [] code = Some(403) ->
         [explanation |-> "Forbidden - Access denied.",
          suggestion |-> "Your app may lack write permissions. Check "
                           \o "Twitter Developer Portal."]
    [] code = Some(404) ->
         [explanation |-> "Resource not found.",
          suggestion |-> "Check if the tweet or user exists."]
    [] code = Some(429) ->
         [explanation |-> "Rate limit exceeded.",
          suggestion |-> "You've hit the Twitter API rate limit. Wait "
                           \o "a while before trying again."]
    [] OTHER -> DefaultAdvice(accountNumber)

\* lines 121-132: the words of the message override the code
MessageAdvice(errorMessage, advice) ==
  IF includes(errorMessage, Words.authentication)
  THEN [explanation |-> "Authentication problem with Twitter.",
        suggestion |-> "Check your Twitter API credentials "
                       \o "and permissions."]
  ELSE IF includes(errorMessage, Words.permission)
  THEN [explanation |-> "Your app lacks the necessary permissions.",
        suggestion |-> "In Twitter Developer Portal, check app "
                       \o "permissions. Should be set to "
                       \o "'Read and Write'."]
  ELSE IF includes(errorMessage, Words.rateLimit)
  THEN [explanation |-> "Rate limit reached.",
        suggestion |-> "You've hit Twitter's API limits. Wait before "
                       \o "trying again or reduce frequency."]
  ELSE advice

parseTwitterError(error, accountNumber) ==
  LET advice == MessageAdvice(error.message,
                              CodeAdvice(error.code, accountNumber))
  IN  [accountNumber |-> accountNumber,
       explanation |-> advice.explanation,
       suggestion |-> advice.suggestion]

----------------------------------------------------------------------------
(* saveFailedTweet, lines 216-243 *)

\* saveFailedTweet starting from an empty list instead of the stored one
saveFailedTweetFresh(queue, text, accountNumber) ==
  <<[text |-> text, accountNumber |-> accountNumber]>>
saveFailedTweet(queue, text, accountNumber) ==
  Append(queue, [text |-> text, accountNumber |-> accountNumber])

----------------------------------------------------------------------------
(* postTweetWithClient, lines 310-424 *)

\* simulationMode without the environment variable
simulationModeConfigOnly(cfg) == cfg.simulationMode
\* line 313
simulationMode(cfg) == simEnv \/ cfg.simulationMode

\* ValidationError without the length limit
ValidationErrorEmptyOnly(text) ==
  IF Len(text) = 0
  THEN Some(MkError(NoValue, Messages.emptyText))
  ELSE NoValue
\* lines 343-349: the error VALIDATE throws, if any
ValidationError(text) ==
  IF Len(text) = 0
  THEN Some(MkError(NoValue, Messages.emptyText))
  ELSE IF Len(text) > MaxTweetLength
  THEN Some(MkError(NoValue,
                    Messages.tooLong))
  ELSE NoValue

\* HasId taking an empty string for an id
HasIdOrEmpty(o) == o.id # NoValue
\* line 354: the response carries a truthy data.id
HasId(o) == o.id # NoValue /\ o.id[1] # <<>>

\* line 378
waitTime(cfg) == OrDefault(cfg.retryDelay, DefaultRetryDelay) * 1000

\* the promise of the outermost invocation settles
Settle(r) ==
  /\ pc' = "done"
  /\ result' = r

\* Catch with the duplicate branch taken whatever budget is left
CatchDuplicateUnbudgeted(text, handle, cfg, retry, twitterError) ==
  IF twitterError.code = Some(RateLimitStatus) /\ retry > 0
  THEN /\ pc' = "waiting"
       /\ sleeps' = Append(sleeps, waitTime(cfg))
       /\ clock' = Tick(clock)
       /\ UNCHANGED <<uniqueTweet, failedTweets, result>>
  ELSE IF twitterError.code = Some(DuplicateCode)
  THEN /\ uniqueTweet' = Mutate(text, Readings[clock])
       /\ pc' = "pausing"
       /\ sleeps' = Append(sleeps, DuplicatePauseMs)
       /\ clock' = Tick(clock)
       /\ UNCHANGED <<failedTweets, result>>
  ELSE /\ failedTweets' = saveFailedTweet(failedTweets, text,
                                          handle.accountNumber)
       /\ Settle(FailureResult(handle.accountNumber, twitterError))
       /\ UNCHANGED <<uniqueTweet, sleeps, clock>>

\* Catch with every coded error but 187 treated as a rate limit
CatchAnyCodeWaits(text, handle, cfg, retry, twitterError) ==
  IF twitterError.code \notin {NoValue, Some(DuplicateCode)} /\ retry > 0
  THEN /\ pc' = "waiting"
       /\ sleeps' = Append(sleeps, waitTime(cfg))
       /\ clock' = Tick(clock)
       /\ UNCHANGED <<uniqueTweet, failedTweets, result>>
  ELSE IF twitterError.code = Some(DuplicateCode) /\ retry > 0
  THEN /\ uniqueTweet' = Mutate(text, Readings[clock])
       /\ pc' = "pausing"
       /\ sleeps' = Append(sleeps, DuplicatePauseMs)
       /\ clock' = Tick(clock)
       /\ UNCHANGED <<failedTweets, result>>
  ELSE /\ failedTweets' = saveFailedTweet(failedTweets, text,
                                          handle.accountNumber)
       /\ Settle(FailureResult(handle.accountNumber, twitterError))
       /\ UNCHANGED <<uniqueTweet, sleeps, clock>>

\* lines 371-415: the handler of the inner try, for the invocation with
\* parameters (text, handle, cfg, retry) that caught twitterError
Catch(text, handle, cfg, retry, twitterError) ==
  IF twitterError.code = Some(RateLimitStatus) /\ retry > 0
  THEN /\ pc' = "waiting"
       /\ sleeps' = Append(sleeps, waitTime(cfg))
       /\ clock' = Tick(clock)
       /\ UNCHANGED <<uniqueTweet, failedTweets, result>>
  ELSE IF twitterError.code = Some(DuplicateCode) /\ retry > 0
  THEN /\ uniqueTweet' = Mutate(text, Readings[clock])
       /\ pc' = "pausing"
       /\ sleeps' = Append(sleeps, DuplicatePauseMs)
       /\ clock' = Tick(clock)
       /\ UNCHANGED <<failedTweets, result>>
  ELSE /\ failedTweets' = saveFailedTweet(failedTweets, text,
                                          handle.accountNumber)
       /\ Settle(FailureResult(handle.accountNumber, twitterError))
       /\ UNCHANGED <<uniqueTweet, sleeps, clock>>

\* Invoke with the validation of lines 343-349 placed before the inner
\* try: its error reaches the handler of line 416
InvokeValidatesOutsideTry(text, handle, cfg, retry) ==
  /\ tweetText' = text
  /\ clientObj' = handle
  /\ config' = cfg
  /\ retryCount' = retry
  /\ IF ~handle.defined
     THEN /\ Settle(OuterCatch(MkError(NoValue, Messages.cannotDestructure)))
          /\ UNCHANGED <<uniqueTweet, failedTweets, sleeps, calls, clock>>
     ELSE IF simulationMode(cfg)
     THEN /\ Settle(SimulatedResult(handle.accountNumber))
          /\ UNCHANGED <<uniqueTweet, failedTweets, sleeps, calls, clock>>
     ELSE IF ValidationError(text) # NoValue
     THEN /\ Settle(OuterCatch(ValidationError(text)[1]))
          /\ UNCHANGED <<uniqueTweet, failedTweets, sleeps, calls, clock>>
     ELSE /\ pc' = "publishing"
          /\ calls' = Append(calls, [accountNumber |-> handle.accountNumber,
                                     text |-> text])
          /\ UNCHANGED <<uniqueTweet, failedTweets, sleeps, result, clock>>

\* lines 311-352: one invocation, from its entry to its first await or return
Invoke(text, handle, cfg, retry) ==
  /\ tweetText' = text
  /\ clientObj' = handle
  /\ config' = cfg
  /\ retryCount' = retry
  /\ IF ~handle.defined
     THEN \* line 312 throws a TypeError, caught at line 416
          /\ Settle(OuterCatch(MkError(NoValue, Messages.cannotDestructure)))
          /\ UNCHANGED <<uniqueTweet, failedTweets, sleeps, calls, clock>>
     ELSE IF simulationMode(cfg)
     THEN /\ Settle(SimulatedResult(handle.accountNumber))
          /\ UNCHANGED <<uniqueTweet, failedTweets, sleeps, calls, clock>>
     ELSE IF ValidationError(text) # NoValue
     THEN /\ Catch(text, handle, cfg, retry, ValidationError(text)[1])
          /\ UNCHANGED calls
     ELSE \* line 352: the transport is invoked and awaited
          /\ pc' = "publishing"
          /\ calls' = Append(calls, [accountNumber |-> handle.accountNumber,
                                     text |-> text])
          /\ UNCHANGED <<uniqueTweet, failedTweets, sleeps, result, clock>>

\* a caller starts an attempt chain
StartChain(text, handle, cfg, retry) ==
  /\ origText' = text
  /\ origRetry' = retry
  /\ failedBefore' = failedTweets
  /\ lastOutcome' = NoOutcome
  /\ Invoke(text, handle, cfg, retry)

\* lines 352-370 and 371-415: the awaited transport call settles with o
HandleOutcome(o) ==
  IF o.kind = "response"
  THEN IF HasId(o)
       THEN /\ Settle(SuccessResult(clientObj.accountNumber, o.id))
            /\ UNCHANGED <<uniqueTweet, failedTweets, sleeps, clock>>
       ELSE Catch(tweetText, clientObj, config, retryCount,
                  MkError(NoValue, Messages.invalidResponse))
  ELSE Catch(tweetText, clientObj, config, retryCount, o.error[1])

TransportResponds ==
  /\ pc = "publishing"
  /\ \E o \in Outcomes :
       /\ lastOutcome' = o
       /\ HandleOutcome(o)
  /\ UNCHANGED <<tweetText, clientObj, config, retryCount, calls, origText,
                 origRetry, failedBefore>>
  /\ UNCHANGED <<simEnv, history, dispatchVars, sweepVars,
                 writes, runs, templateVars>>

\* lines 381-383: the rate-limit sleep is over, the same text is retried
RetryAfterWait ==
  /\ pc = "waiting"
  /\ Invoke(tweetText, clientObj, config, retryCount - 1)
  /\ UNCHANGED <<lastOutcome, origText, origRetry, failedBefore>>
  /\ UNCHANGED <<simEnv, history, dispatchVars, sweepVars,
                 writes, runs, templateVars>>

\* lines 402-404: the short sleep is over, the timestamped text is retried
RetryAfterPause ==
  /\ pc = "pausing"
  /\ Invoke(uniqueTweet, clientObj, config, retryCount - 1)
  /\ UNCHANGED <<lastOutcome, origText, origRetry, failedBefore>>
  /\ UNCHANGED <<simEnv, history, dispatchVars, sweepVars,
                 writes, runs, templateVars>>

----------------------------------------------------------------------------
(* Inputs of a direct call of postTweetWithClient *)

THi == <<"h", "i">>
TTagged == <<"g", "m", " ">> \o Tag \o <<" ", "!">>
\* the longest text that stays within the limit with one marker added, the
\* shortest that does not, and the shortest that is over the limit itself
TRoomForOne == Chars(MaxTweetLength - 11, "y")
TNoRoom == Chars(MaxTweetLength - 10, "z")
TOver == Chars(MaxTweetLength + 1, "w")

Texts == { <<>>, THi, TTagged, TRoomForOne, TNoRoom, TOver }

Handles == { Handle(n) : n \in 1..MaxAccounts }

MkConfig(sim, delay, retries) ==
  [simulationMode |-> sim, retryDelay |-> delay, maxRetries |-> retries]

CallConfigs ==
  { MkConfig(sim, delay, NoValue) :
      sim \in BOOLEAN, delay \in {NoValue, Some(0), Some(60)} }

Queues == { <<>>, <<[text |-> THi, accountNumber |-> 1]>> }

\* no call is running
InitRun ==
  /\ pc = "idle"
  /\ tweetText = <<>>
  /\ clientObj = NoHandle
  /\ config = MkConfig(FALSE, NoValue, NoValue)
  /\ retryCount = 0
  /\ uniqueTweet = <<>>
  /\ result = NoResult
  /\ lastOutcome = NoOutcome
  /\ calls = <<>>
  /\ sleeps = <<>>
  /\ origText = <<>>
  /\ origRetry = 0
  /\ failedBefore = <<>>
  /\ dpc = "idle"
  /\ dText = <<>>
  /\ twitterClients = <<>>
  /\ dIdx = 0
  /\ results = <<>>
  /\ delayMs = 0
  /\ accountsFile = <<>>
  /\ spc = "idle"
  /\ localFailedTweets = <<>>
  /\ tweetsByAccount = <<>>
  /\ gIdx = 0
  /\ tIdx = 0
  /\ replayed = <<>>
  /\ writes = 0
  /\ runs = <<>>
  /\ templatesExist = TRUE
  /\ templates = NoValue
  /\ selected = NoSelection

\* the caller has taken the result: the locals of the chain are gone
ReleaseChain ==
  /\ pc' = "idle"
  /\ tweetText' = <<>>
  /\ clientObj' = NoHandle
  /\ retryCount' = 0
  /\ uniqueTweet' = <<>>
  /\ result' = NoResult
  /\ lastOutcome' = NoOutcome
  /\ calls' = <<>>
  /\ sleeps' = <<>>
  /\ origText' = <<>>
  /\ origRetry' = 0
  /\ failedBefore' = <<>>
  /\ UNCHANGED config

Init ==
  /\ simEnv \in BOOLEAN
  /\ clock \in 1..Len(Readings)
  /\ failedTweets \in Queues
  /\ history = <<>>
  /\ InitRun

\* a caller invokes postTweetWithClient(tweetText, twitterClientObj, config,
\* retryCount)
Call ==
  /\ pc = "idle"
  /\ dpc = "idle"
  /\ \E text \in Texts, handle \in Handles,
        cfg \in CallConfigs, retry \in 0..MaxRetry :
       StartChain(text, handle, cfg, retry)
  /\ UNCHANGED <<simEnv, history, dispatchVars, sweepVars,
                 writes, runs, templateVars>>

Next == Call \/ TransportResponds \/ RetryAfterWait \/ RetryAfterPause

Spec == Init /\ [][Next]_vars

----------------------------------------------------------------------------
(* History store: getTweetHistory (lines 709-723), saveTweetHistory        *)
(* (lines 144-209)                                                         *)

getTweetHistory == history

\* Array.prototype.slice(-n)
LastN(seq, n) ==
  IF Len(seq) <= n THEN seq ELSE SubSeq(seq, Len(seq) - n + 1, Len(seq))

\* lines 163-181: the per-account record of one result
AccountRecord(r) ==
  LET tweetId ==
        IF r.success \/ r.simulated
        THEN IF r.id # NoValue /\ r.id[1] # <<>> THEN r.id
             ELSE IF r.simulated THEN Some(SimulatedPrefix \o Now)
             ELSE Some(UnknownId)
        ELSE NoValue
      tweetUrl ==
        IF /\ tweetId # NoValue
           /\ tweetId[1] # <<>>
           /\ tweetId[1] # UnknownId
           /\ ~includes(tweetId[1], SimulatedWord)
        THEN Some(UrlBase \o tweetId[1])
        ELSE NoValue
  IN  [accountNumber |-> r.accountNumber,
       success |-> r.success,
       simulated |-> r.simulated,
       tweetId |-> tweetId,
       tweetUrl |-> tweetUrl,
       error |-> IF r.success THEN NoValue
                 ELSE IF r.error # NoValue /\ r.error[1].message # <<>>
                 THEN Some(r.error[1].message)
                 ELSE Some(Messages.unknownError)]

\* saveTweetHistory recording the successful results only
saveTweetHistorySuccessOnly(hist, text, rs) ==
  LET ok == SelectSeq(rs, LAMBDA r : r.success)
      tweetRecord ==
        [text |-> text,
         accounts |-> [i \in 1..Len(ok) |-> AccountRecord(ok[i])]]
  IN  Append(hist, tweetRecord)
\* saveTweetHistory keeping the first 100 entries instead of the last
saveTweetHistoryKeepOldest(hist, text, rs) ==
  LET tweetRecord ==
        [text |-> text,
         accounts |-> [i \in 1..Len(rs) |-> AccountRecord(rs[i])]]
      pushed == Append(hist, tweetRecord)
  IN  IF Len(pushed) > HistoryCap
      THEN SubSeq(pushed, 1, HistoryCap)
      ELSE pushed
\* lines 144-209: the stored history after the write
saveTweetHistory(hist, text, rs) ==
  LET tweetRecord ==
        [text |-> text,
         accounts |-> [i \in 1..Len(rs) |-> AccountRecord(rs[i])]]
      pushed == Append(hist, tweetRecord)
  IN  IF Len(pushed) > HistoryCap
      THEN SubSeq(pushed, Len(pushed) - HistoryCap + 1, Len(pushed))
      ELSE pushed

\* a stored history of n entries, each different from the others
StoredEntry(i) ==
  [text |-> Chars(i, "h"),
   accounts |-> <<AccountRecord(SuccessResult(1, Some(ProviderId)))>>]
StoredHistory(n) == [i \in 1..n |-> StoredEntry(i)]

\* an empty store, a store one entry short of the cap and a full store
StoredHistories ==
  { StoredHistory(n) : n \in {0, HistoryCap - 1, HistoryCap} }

\* the results handed to saveTweetHistory
ResultLists ==
  { <<SuccessResult(1, Some(ProviderId))>>,
    <<FailureResult(1, MkError(Some(ForbiddenStatus), Messages.forbidden)),
      SimulatedResult(2)>> }

InitHistory ==
  /\ simEnv = FALSE
  /\ clock = 1
  /\ failedTweets = <<>>
  /\ history \in StoredHistories
  /\ InitRun

\* a caller invokes saveTweetHistory(tweetText, results)
SaveHistory ==
  /\ writes < MaxWrites
  /\ \E text \in {THi, TNoRoom}, rs \in ResultLists :
       history' = saveTweetHistory(history, text, rs)
  /\ writes' = writes + 1
  /\ UNCHANGED <<simEnv, clock, failedTweets, chainVars, dispatchVars,
                 sweepVars, runs, templateVars>>

NextHistory == SaveHistory

SpecHistory == InitHistory /\ [][NextHistory]_vars

----------------------------------------------------------------------------
(* calculateSmartDelay, lines 251-300 *)

\* tweet.accounts.find(a => a.accountNumber === accountNumber)
FindAccount(tweet, accountNumber) ==
  LET hits == { i \in 1..Len(tweet.accounts) :
                  tweet.accounts[i].accountNumber = Some(accountNumber) }
  IN  IF hits = {} THEN NoValue
      ELSE Some(tweet.accounts[CHOOSE i \in hits : \A j \in hits : i <= j])

RECURSIVE CountIf(_, _, _)
\* the number of tweets of seq whose record of the account satisfies failed
CountIf(seq, accountNumber, failedOnly) ==
  IF seq = <<>> THEN 0
  ELSE LET a == FindAccount(Head(seq), accountNumber)
           one == IF a # NoValue /\ (~failedOnly \/ ~a[1].success)
                  THEN 1 ELSE 0
       IN  one + CountIf(Tail(seq), accountNumber, failedOnly)

\* BaseDelay looking at the whole history instead of its last 20 entries
BaseDelayWholeHistory(accountNumber, hist) ==
  LET totalCount == CountIf(hist, accountNumber, FALSE)
      failCount == CountIf(hist, accountNumber, TRUE)
  IN  IF Len(hist) > 0 /\ totalCount > 0
      THEN IF 2 * failCount > totalCount THEN HighDelayMs
           ELSE IF 5 * failCount > totalCount THEN MidDelayMs
           ELSE BaseDelayMs
      ELSE BaseDelayMs
\* lines 254-292: the delay before the random factor is applied
BaseDelay(accountNumber, hist) ==
  LET recentTweets == LastN(hist, RecentWindow)
      totalCount == CountIf(recentTweets, accountNumber, FALSE)
      failCount == CountIf(recentTweets, accountNumber, TRUE)
  IN  IF Len(hist) > 0 /\ totalCount > 0
      THEN IF 2 * failCount > totalCount THEN HighDelayMs
           ELSE IF 5 * failCount > totalCount THEN MidDelayMs
           ELSE BaseDelayMs
      ELSE BaseDelayMs

\* 0.8 + Math.random() * 0.4 in thousandths: the draws of the model
RandomFactors == {800, 1000, 1199}

\* line 295: Math.floor(delay * randomFactor)
calculateSmartDelay(accountNumber, hist, randomFactor) ==
  (BaseDelay(accountNumber, hist) * randomFactor) \div 1000

----------------------------------------------------------------------------
(* postTweetToAllAccounts, lines 461-496 *)

\* line 478: config.twitterConfig?.maxRetries || 1
DispatchBudget(cfg) == OrDefault(cfg.maxRetries, 1)

\* results.push(result) skipped for a failed result
PushSuccessOnly(rs, r) == IF r.success THEN Append(rs, r) ELSE rs
\* line 481
PushResult(rs, r) == Append(rs, r)

DispatchTexts == { THi, TNoRoom }

\* initializeTwitterClients(readAccountsFromFile()): accounts 1..n in order
Pools == { [i \in 1..n |-> Handle(i)] : n \in 0..MaxAccounts }

DispatchConfigs ==
  { MkConfig(FALSE, NoValue, retries) :
      retries \in {NoValue, Some(0), Some(2)} }

\* a stored entry in which account 1 failed and account 2 succeeded
OldEntry ==
  [text |-> THi,
   accounts |->
     <<AccountRecord(FailureResult(1, MkError(Some(ForbiddenStatus),
                                              Messages.forbidden))),
       AccountRecord(SuccessResult(2, Some(ProviderId)))>>]

Histories == { <<>>, <<OldEntry>> }

\* lines 462-479: the call, up to the first await
DispatchStart ==
  /\ pc = "idle"
  /\ dpc = "idle"
  /\ \E text \in DispatchTexts, pool \in Pools, cfg \in DispatchConfigs :
       /\ dText' = text
       /\ twitterClients' = pool
       /\ results' = <<>>
       /\ IF Len(pool) = 0
          THEN /\ dpc' = "returned"
               /\ dIdx' = 0
               /\ UNCHANGED <<chainVars, failedTweets, clock>>
          ELSE /\ dpc' = "posting"
               /\ dIdx' = 1
               /\ StartChain(text, pool[1], cfg, DispatchBudget(cfg))
  /\ UNCHANGED <<simEnv, history, delayMs, sweepVars,
                 writes, runs, templateVars>>

\* lines 474-495: the awaited attempt has settled
DispatchAfterPost ==
  /\ dpc = "posting"
  /\ pc = "done"
  /\ IF result.settled = "rejected"
     THEN \* the await rethrows and the function rejects
          /\ dpc' = "threw"
          /\ UNCHANGED <<dIdx, results, delayMs, history, chainVars,
                         failedTweets, clock>>
     ELSE /\ results' = PushResult(results, result)
          /\ IF twitterClients[dIdx] # twitterClients[Len(twitterClients)]
             THEN \* lines 484-487
                  /\ \E randomFactor \in RandomFactors :
                       delayMs' = calculateSmartDelay(
                                    twitterClients[dIdx].accountNumber,
                                    getTweetHistory, randomFactor)
                  /\ dpc' = "sleeping"
                  /\ clock' = Tick(clock)
                  /\ ReleaseChain
                  /\ UNCHANGED <<dIdx, history, failedTweets>>
             ELSE IF dIdx < Len(twitterClients)
             THEN \* no wait: the loop goes on to the next element
                  /\ dIdx' = dIdx + 1
                  /\ StartChain(dText, twitterClients[dIdx + 1], config,
                                DispatchBudget(config))
                  /\ UNCHANGED <<dpc, delayMs, history>>
             ELSE \* lines 492-495
                  /\ history' = saveTweetHistory(history, dText, results')
                  /\ dpc' = "returned"
                  /\ ReleaseChain
                  /\ UNCHANGED <<dIdx, delayMs, failedTweets, clock>>
  /\ UNCHANGED <<simEnv, dText, twitterClients, sweepVars,
                 writes, runs, templateVars>>

\* lines 487 and 472-479: the pacing sleep is over, the next account is posted
DispatchWake ==
  /\ dpc = "sleeping"
  /\ dIdx' = dIdx + 1
  /\ dpc' = "posting"
  /\ delayMs' = 0
  /\ StartChain(dText, twitterClients[dIdx + 1], config,
                DispatchBudget(config))
  /\ UNCHANGED <<simEnv, history, dText, twitterClients, results>>
  /\ UNCHANGED <<sweepVars, writes, runs, templateVars>>

InitDispatch ==
  /\ simEnv \in BOOLEAN
  /\ clock = 1
  /\ failedTweets = <<>>
  /\ history \in Histories
  /\ InitRun

NextDispatch ==
  \/ DispatchStart
  \/ TransportResponds
  \/ RetryAfterWait
  \/ RetryAfterPause
  \/ DispatchAfterPost
  \/ DispatchWake

SpecDispatch == InitDispatch /\ [][NextDispatch]_vars

\* a started dispatch goes on: the transport settles every call, every
\* timer of sleep fires and a settled promise resumes its awaiter (at most
\* one of these steps is possible at a time); whether a caller ever starts
\* a dispatch is left open
DispatchGoesOn ==
  \/ TransportResponds
  \/ RetryAfterWait
  \/ RetryAfterPause
  \/ DispatchAfterPost
  \/ DispatchWake
DispatchFairness == WF_vars(DispatchGoesOn)

SpecDispatchFair == SpecDispatch /\ DispatchFairness

\* stored entries of a dispatch to accounts 1 and 2: "s" account 1 succeeded
\* and account 2 failed, "f" the other way round, "n" a dispatch made when
\* accounts.txt held another account only
DelayEntry(kind) ==
  LET ok(n) == AccountRecord(SuccessResult(n, Some(ProviderId)))
      ko(n) == AccountRecord(FailureResult(n, MkError(Some(ForbiddenStatus),
                                                      Messages.forbidden)))
  IN  [text |-> THi,
       accounts |-> IF kind = "s" THEN <<ok(1), ko(2)>>
                    ELSE IF kind = "f" THEN <<ko(1), ok(2)>>
                    ELSE <<ko(MaxAccounts + 1)>>]
DelayHistory(kinds) == [i \in 1..Len(kinds) |-> DelayEntry(kinds[i])]

\* tweet_history.json as earlier dispatches left it: failure rates of
\* account 1 on both sides of 0.2 and of 0.5, and two stores longer than
\* the window whose oldest entry is the only one of its kind
DelayHistories ==
  { DelayHistory(kinds) :
      kinds \in { <<>>,
                  Chars(3, "n"),
                  <<"f">> \o Chars(4, "s"),
                  <<"f">> \o Chars(3, "s"),
                  <<"f", "s">>,
                  <<"f", "f", "s">>,
                  <<"f">> \o Chars(9, "s"),
                  <<"f">> \o Chars(RecentWindow - 1, "n") \o <<"s">>,
                  <<"s">> \o Chars(RecentWindow - 1, "n") \o <<"f">> } }

InitDelay ==
  /\ simEnv = FALSE
  /\ clock = 1
  /\ failedTweets = <<>>
  /\ history \in DelayHistories
  /\ InitRun

\* the dispatch loop on the stores of DelayHistories
SpecDelay == InitDelay /\ [][NextDispatch]_vars

----------------------------------------------------------------------------
(* accounts.txt and the account pool: readAccountsFromFile (config module, *)
(* lines 70-138), initializeTwitterClients (lines 23-43),                  *)
(* lazyLoadTwitterClient (lines 598-665)                                   *)
(*                                                                         *)
(* accountsFile is fileContent.split('\n'): a sequence of lines. A line is *)
(* what the loaders look at: whether its trimmed text starts with '#', and *)
(* the trimmed parts of line.split(','); an empty line has the one part "".*)

Line(comment, parts) == [comment |-> comment, parts |-> parts]
BlankLine == Line(FALSE, << <<>> >>)
CommentLine == Line(TRUE, << <<"#", "x">> >>)
\* two parts instead of four
MalformedLine == Line(FALSE, << <<"k">>, <<"s">> >>)
\* the credentials of the i-th account: appKey is "k" repeated i times
CredLine(i) == Line(FALSE, << Chars(i, "k"), <<"s">>, <<"t">>, <<"a">> >>)

\* line.trim() === '' || line.trim().startsWith('#')
Skipped(line) == line.comment \/ line.parts = << <<>> >>

\* parts.length === 4 and the four parts are truthy
Usable(line) ==
  /\ Len(line.parts) = Len(CredLine(1).parts)
  /\ \A j \in 1..Len(line.parts) : line.parts[j] # <<>>

\* readAccountsFromFile and initializeTwitterClients: accountCount counts
\* the lines that yield an account, the k-th of them becomes account k
readAccountsFromFile(file) ==
  LET good == SelectSeq(file, LAMBDA l : ~Skipped(l) /\ Usable(l))
  IN  [k \in 1..Len(good) |-> MkHandle(k, good[k].parts[1])]

\* twitterClients.find(c => c.accountNumber === accountNumber)
FindClient(pool, accountNumber) ==
  LET hits == { i \in 1..Len(pool) : pool[i].accountNumber = accountNumber }
  IN  IF hits = {} THEN NoValue
      ELSE Some(pool[CHOOSE i \in hits : \A j \in hits : i <= j])

\* line 623: the number lazyLoadTwitterClient gives to the line at lineCount
currentAccountNumber(file, lineCount) ==
  lineCount - Len(SelectSeq(file, Skipped))

\* lines 613-641: the appKey of the account the scan of the file leaves in
\* account, none when no line of four truthy parts has the number asked for
\* (lineCount is different for every line: at most one line has it)
ScanAccount(file, accountNumber) ==
  LET hits == { lineCount \in 1..Len(file) :
                  /\ ~Skipped(file[lineCount])
                  /\ Usable(file[lineCount])
                  /\ currentAccountNumber(file, lineCount) = accountNumber }
  IN  IF hits = {} THEN NoValue
      ELSE Some(file[CHOOSE lineCount \in hits : TRUE].parts[1])

\* lazyLoadTwitterClient pushing a new handle without looking for a pooled one
lazyLoadNoLookup(accountNumber, pool, file) ==
  LET account == ScanAccount(file, accountNumber)
  IN  IF account # NoValue
      THEN [client |-> Some(MkHandle(accountNumber, account[1])),
            pool |-> Append(pool, MkHandle(accountNumber, account[1]))]
      ELSE [client |-> NoValue, pool |-> pool]
\* lazyLoadTwitterClient finding a line for every account number
lazyLoadAnyNumber(accountNumber, pool, file) ==
  IF FindClient(pool, accountNumber) # NoValue
  THEN [client |-> FindClient(pool, accountNumber), pool |-> pool]
  ELSE [client |-> Some(MkHandle(accountNumber, <<"k">>)),
        pool |-> Append(pool, MkHandle(accountNumber, <<"k">>))]
\* lines 598-665: the handle returned (none for null) and the pool afterwards
lazyLoadTwitterClient(accountNumber, pool, file) ==
  IF FindClient(pool, accountNumber) # NoValue
  THEN [client |-> FindClient(pool, accountNumber), pool |-> pool]
  ELSE LET account == ScanAccount(file, accountNumber)
       IN  IF account # NoValue
           THEN [client |-> Some(MkHandle(accountNumber, account[1])),
                 pool |-> Append(pool, MkHandle(accountNumber, account[1]))]
           ELSE [client |-> NoValue, pool |-> pool]

----------------------------------------------------------------------------
(* retryFailedTweets, lines 504-590 *)

RECURSIVE SortedKeys(_)
\* for (const accountNumber in tweetsByAccount): integer keys, ascending
SortedKeys(S) ==
  IF S = {} THEN <<>>
  ELSE LET m == CHOOSE x \in S : \A y \in S : x <= y
       IN  <<m>> \o SortedKeys(S \ {m})

\* lines 531-537, in the order in which line 540 goes through the keys
GroupByAccount(queue) ==
  LET keys == SortedKeys({ queue[i].accountNumber : i \in 1..Len(queue) })
  IN  [k \in 1..Len(keys) |->
         [accountNumber |-> keys[k],
          tweets |-> SelectSeq(queue,
                               LAMBDA t : t.accountNumber = keys[k])]]

\* lines 569-571
RemoveReplayed(queue, tweet) ==
  SelectSeq(queue, LAMBDA t : ~( /\ t.accountNumber = tweet.accountNumber
                                 /\ t.text = tweet.text ))

RECURSIVE NextGroup(_, _, _, _)
\* lines 540-551: the first group from g on whose account has a handle in
\* the pool or can be loaded; Len(groups) + 1 when there is none
NextGroup(groups, g, pool, file) ==
  IF g > Len(groups) THEN g
  ELSE IF lazyLoadTwitterClient(groups[g].accountNumber, pool,
                                file).client # NoValue
  THEN g
  ELSE NextGroup(groups, g + 1, pool, file)

\* lines 540-563: the outer loop goes on from group g; the replay of the
\* first tweet of the next group that has a handle is started, or the sweep
\* returns true
SweepFrom(groups, g, cfg) ==
  LET n == NextGroup(groups, g, twitterClients, accountsFile) IN
  IF n > Len(groups)
  THEN /\ spc' = "returnedTrue"
       /\ gIdx' = n
       /\ tIdx' = 0
       /\ ReleaseChain
       /\ UNCHANGED <<twitterClients, failedTweets, clock>>
  ELSE LET loaded == lazyLoadTwitterClient(groups[n].accountNumber,
                                          twitterClients, accountsFile)
       IN  /\ spc' = "replaying"
           /\ gIdx' = n
           /\ tIdx' = 1
           /\ twitterClients' = loaded.pool
           /\ StartChain(groups[n].tweets[1].text, loaded.client[1], cfg, 1)

SweepConfigs == { MkConfig(sim, NoValue, NoValue) : sim \in BOOLEAN }

\* lines 505-563: the call, up to the first await
SweepStart ==
  /\ pc = "idle"
  /\ dpc = "idle"
  /\ spc = "idle"
  /\ localFailedTweets' = failedTweets
  /\ \E cfg \in SweepConfigs :
       IF failedTweets = <<>>
       THEN \* lines 523-526
            /\ spc' = "returnedFalse"
            /\ config' = cfg
            /\ UNCHANGED <<pc, tweetText, clientObj, retryCount, uniqueTweet,
                           result, lastOutcome, calls, sleeps, origText,
                           origRetry, failedBefore>>
            /\ UNCHANGED <<tweetsByAccount, gIdx, tIdx, twitterClients,
                           failedTweets, clock>>
       ELSE /\ tweetsByAccount' = GroupByAccount(failedTweets)
            /\ SweepFrom(GroupByAccount(failedTweets), 1, cfg)
  /\ UNCHANGED <<simEnv, history, accountsFile, replayed,
                 writes, runs, templateVars>>
  /\ UNCHANGED <<dpc, dText, dIdx, results, delayMs>>

\* SweepAfterReplay giving up at the first replay that fails
SweepAfterReplayStopsOnFailure ==
  /\ spc = "replaying"
  /\ pc = "done"
  /\ LET tweet == tweetsByAccount[gIdx].tweets[tIdx] IN
     IF ~result.success
     THEN /\ spc' = "returnedFalse"
          /\ UNCHANGED <<localFailedTweets, failedTweets, replayed, clock>>
          /\ ReleaseChain
     ELSE /\ replayed' = Append(replayed,
                                 [accountNumber |-> tweet.accountNumber,
                                  text |-> tweet.text,
                                  success |-> result.success,
                                  calls |-> Len(calls)])
          /\ localFailedTweets' = RemoveReplayed(localFailedTweets, tweet)
          /\ failedTweets' = RemoveReplayed(localFailedTweets, tweet)
          /\ spc' = "resting"
          /\ clock' = Tick(clock)
          /\ ReleaseChain
  /\ UNCHANGED <<simEnv, history, accountsFile, tweetsByAccount, gIdx, tIdx,
                 writes, runs, templateVars, dispatchVars>>

\* lines 559-580: the awaited replay has settled
SweepAfterReplay ==
  /\ spc = "replaying"
  /\ pc = "done"
  /\ LET tweet == tweetsByAccount[gIdx].tweets[tIdx] IN
     IF result.settled = "rejected"
     THEN \* the await rethrows, line 586 catches and false is returned
          /\ spc' = "returnedFalse"
          /\ UNCHANGED <<localFailedTweets, failedTweets, replayed, clock>>
          /\ ReleaseChain
     ELSE /\ replayed' = Append(replayed,
                                 [accountNumber |-> tweet.accountNumber,
                                  text |-> tweet.text,
                                  success |-> result.success,
                                  calls |-> Len(calls)])
          /\ IF result.success
             THEN \* lines 569-574: the local list is filtered and written
                  /\ localFailedTweets' =
                       RemoveReplayed(localFailedTweets, tweet)
                  /\ failedTweets' = RemoveReplayed(localFailedTweets, tweet)
             ELSE UNCHANGED <<localFailedTweets, failedTweets>>
          /\ spc' = "resting"
          /\ clock' = Tick(clock)
          /\ ReleaseChain
  /\ UNCHANGED <<simEnv, history, accountsFile, tweetsByAccount, gIdx, tIdx,
                 writes, runs, templateVars, dispatchVars>>

\* lines 580 and 555-563, 540-551: the pause is over; the next tweet of the
\* group is replayed, else the outer loop goes on
SweepWake ==
  /\ spc = "resting"
  /\ IF tIdx < Len(tweetsByAccount[gIdx].tweets)
     THEN LET loaded ==
                lazyLoadTwitterClient(tweetsByAccount[gIdx].accountNumber,
                                      twitterClients, accountsFile)
          IN  /\ spc' = "replaying"
              /\ tIdx' = tIdx + 1
              /\ twitterClients' = loaded.pool
              /\ StartChain(tweetsByAccount[gIdx].tweets[tIdx + 1].text,
                            loaded.client[1], config, 1)
              /\ UNCHANGED gIdx
     ELSE SweepFrom(tweetsByAccount, gIdx + 1, config)
  /\ UNCHANGED <<simEnv, history, accountsFile, localFailedTweets,
                 tweetsByAccount, replayed, writes, runs, templateVars>>
  /\ UNCHANGED <<dpc, dText, dIdx, results, delayMs>>

\* accounts.txt as written by its owner: the accounts one per line, with a
\* newline at the end of the file, behind a comment, behind a line that is
\* not an account, or with no account at all
AccountsFiles ==
  { [i \in 1..MaxAccounts |-> CredLine(i)],
    [i \in 1..MaxAccounts |-> CredLine(i)] \o <<BlankLine>>,
    <<CommentLine, CredLine(1)>>,
    <<MalformedLine, CredLine(1)>>,
    <<BlankLine>> }

FailedEntry(accountNumber, text) ==
  [text |-> text, accountNumber |-> accountNumber]

\* failed_tweets.json as earlier runs left it
SweepQueues ==
  { <<>>,
    <<FailedEntry(1, THi), FailedEntry(1, THi)>>,
    <<FailedEntry(1, THi), FailedEntry(1, TNoRoom)>>,
    <<FailedEntry(2, THi), FailedEntry(1, THi), FailedEntry(2, TNoRoom)>>,
    <<FailedEntry(MaxAccounts + 1, THi), FailedEntry(1, TNoRoom)>>,
    <<FailedEntry(1, <<>>), FailedEntry(1, TOver)>> }

InitSweep ==
  /\ simEnv = FALSE
  /\ clock = 1
  /\ failedTweets \in SweepQueues
  /\ history = <<>>
  /\ pc = "idle"
  /\ tweetText = <<>>
  /\ clientObj = NoHandle
  /\ config = MkConfig(FALSE, NoValue, NoValue)
  /\ retryCount = 0
  /\ uniqueTweet = <<>>
  /\ result = NoResult
  /\ lastOutcome = NoOutcome
  /\ calls = <<>>
  /\ sleeps = <<>>
  /\ origText = <<>>
  /\ origRetry = 0
  /\ failedBefore = <<>>
  /\ dpc = "idle"
  /\ dText = <<>>
  /\ \E file \in AccountsFiles :
       /\ accountsFile = file
       /\ twitterClients = readAccountsFromFile(file)
  /\ dIdx = 0
  /\ results = <<>>
  /\ delayMs = 0
  /\ spc = "idle"
  /\ localFailedTweets = <<>>
  /\ tweetsByAccount = <<>>
  /\ gIdx = 0
  /\ tIdx = 0
  /\ replayed = <<>>
  /\ writes = 0
  /\ runs = <<>>
  /\ templatesExist = TRUE
  /\ templates = NoValue
  /\ selected = NoSelection

NextSweep ==
  \/ SweepStart
  \/ TransportResponds
  \/ RetryAfterWait
  \/ RetryAfterPause
  \/ SweepAfterReplay
  \/ SweepWake

SpecSweep == InitSweep /\ [][NextSweep]_vars

\* a started sweep goes on: the transport settles every call, every timer
\* of sleep fires and a settled promise resumes its awaiter; whether a
\* caller ever starts a sweep is left open
SweepGoesOn ==
  \/ TransportResponds
  \/ RetryAfterWait
  \/ RetryAfterPause
  \/ SweepAfterReplay
  \/ SweepWake
SweepFairness == WF_vars(SweepGoesOn)

SpecSweepFair == SpecSweep /\ SweepFairness

----------------------------------------------------------------------------
(* selectSmartTemplate (aiService.js, lines 268-320)                       *)
(*                                                                         *)
(* A score is a JavaScript number, an IEEE 754 binary64 value: NaN (the    *)
(* value of 0 / 0, line 292 for a tweet without accounts) or a number that *)
(* is not negative, held as its binary digits, Binary64.integer of them    *)
(* before the point and Binary64.fraction after it, in limbs of            *)
(* Binary64.limb digits each, the most significant limb first: the number  *)
(* with the limbs <<l1, ..., l5>> is                                       *)
(* (l1 * 2^60 + l2 * 2^45 + l3 * 2^30 + l4 * 2^15 + l5) / 2^70.            *)
(* Every operation gives the exact result rounded to Binary64.significand  *)
(* significant digits, a tie going to the neighbour whose last digit is 0. *)
(* The limbs hold 0 and every binary64 value from 2^-18 to 2^5 exactly:    *)
(* the scores of tweets with at most 31 accounts are in that range.        *)

PrefixLength == 20
TemplateWindow == 20
TopCount == 3

Template(name, content) == [name |-> name, content |-> content]

\* String.prototype.substring(0, n)
substring(s, n) == IF Len(s) <= n THEN s ELSE SubSeq(s, 1, n)

Binary64 == [significand |-> 53, integer |-> 5, fraction |-> 70, limb |-> 15]

Number(limbs) == [nan |-> FALSE, limbs |-> limbs]
NaN == [nan |-> TRUE, limbs |-> <<>>]

\* the exact value with the given limbs (one limb more than a number has),
\* and more digits that are not all 0 after them when inexact, rounded to
\* nearest, a tie to even
Round(limbs, inexact) ==
  LET size == Binary64.limb
      base == 2^size
      count == (Binary64.integer + Binary64.fraction) \div size
      \* the binary digit at place p, 1 the most significant
      digit(p) ==
        IF p > size * Len(limbs) THEN 0
        ELSE (limbs[(p - 1) \div size + 1]
                \div 2^((size - 1) - ((p - 1) % size))) % 2
  IN  IF \A j \in 1..Len(limbs) : limbs[j] = 0
      THEN [j \in 1..count |-> 0]
      ELSE LET \* the first limb that is not 0 and its highest digit
               lead == CHOOSE j \in 1..Len(limbs) :
                         /\ limbs[j] # 0
                         /\ \A t \in 1..(j - 1) : limbs[t] = 0
               high == CHOOSE e \in 0..(size - 1) : limbs[lead] \div 2^e = 1
               \* the places of the first and of the last digit kept
               first == size * lead - high
               last == first + Binary64.significand - 1
               \* the limb of the last digit kept and the digit's weight
               lastLimb == (last - 1) \div size + 1
               unit == 2^((size - 1) - ((last - 1) % size))
               kept == [j \in 1..count |->
                          IF j < lastLimb THEN limbs[j]
                          ELSE IF j = lastLimb
                          THEN (limbs[j] \div unit) * unit
                          ELSE 0]
               more == \/ inexact
                       \/ \E p \in (last + 2)..(size * Len(limbs)) :
                            digit(p) = 1
               up == digit(last + 1) = 1 /\ (more \/ digit(last) = 1)
               \* one more in the last digit reaches limb j
               reaches(j) ==
                 /\ j <= lastLimb
                 /\ \A t \in (j + 1)..(lastLimb - 1) : kept[t] = base - 1
                 /\ j = lastLimb \/ kept[lastLimb] + unit = base
           IN  IF ~up THEN kept
               ELSE [j \in 1..count |->
                       IF ~reaches(j) THEN kept[j]
                       ELSE IF j = lastLimb THEN (kept[j] + unit) % base
                       ELSE (kept[j] + 1) % base]

\* the number of an integer from 0 to 31 (a length, line 292)
Integer(n) ==
  Number([j \in 1..((Binary64.integer + Binary64.fraction)
                      \div Binary64.limb) |->
            IF j = 1 THEN n * 2^(Binary64.limb - Binary64.integer) ELSE 0])

\* a + b: the long addition of the limbs, rounded
Plus(a, b) ==
  IF a.nan \/ b.nan THEN NaN
  ELSE LET base == 2^Binary64.limb
           count == Len(a.limbs)
           \* what limb j + 1 carries over
           carry[j \in 0..count] ==
             IF j = count THEN 0
             ELSE (a.limbs[j + 1] + b.limbs[j + 1] + carry[j + 1]) \div base
       IN  Number(Round([j \in 1..count |->
                           (a.limbs[j] + b.limbs[j] + carry[j]) % base],
                        FALSE))

\* a / k for an integer k from 1 to 31 (a length, lines 292 and 302): the
\* long division of the limbs, carried one limb further, rounded
Divide(a, k) ==
  IF a.nan THEN NaN
  ELSE LET base == 2^Binary64.limb
           count == Len(a.limbs)
           limb(j) == IF j <= count THEN a.limbs[j] ELSE 0
           \* what is left after limb j of the quotient
           left[j \in 0..(count + 1)] ==
             IF j = 0 THEN 0 ELSE (left[j - 1] * base + limb(j)) % k
       IN  Number(Round([j \in 1..(count + 1) |->
                           (left[j - 1] * base + limb(j)) \div k],
                        left[count + 1] # 0))

\* the sign of a - b for two numbers that are not NaN
Sign(a, b) ==
  IF a.limbs = b.limbs THEN 0
  ELSE LET j == CHOOSE j \in 1..Len(a.limbs) :
                  /\ a.limbs[j] # b.limbs[j]
                  /\ \A t \in 1..(j - 1) : a.limbs[t] = b.limbs[t]
       IN  IF a.limbs[j] > b.limbs[j] THEN 1 ELSE -1

\* line 289: tweet.text && tweet.text.includes(template.content.substring(0, 20))
UsedTemplate(tweet, template) ==
  /\ tweet.text # <<>>
  /\ includes(tweet.text, substring(template.content, PrefixLength))

\* line 292: the successful accounts of the tweet over all its accounts
successRate(tweet) ==
  IF Len(tweet.accounts) = 0 THEN NaN
  ELSE Divide(Integer(Len(SelectSeq(tweet.accounts, LAMBDA a : a.success))),
              Len(tweet.accounts))

\* the element of a set of one element. In { e(x) : x \in {v} } the value
\* v is computed once and e uses it as x, the way JavaScript computes a
\* value, holds it in a variable and uses the variable
Only(S) == CHOOSE x \in S : TRUE

RECURSIVE SumRates(_, _)
\* lines 281-295: score after the forEach has met the first n tweets that
\* match, the rates added one after the other to 0
SumRates(tweets, n) ==
  IF n = 0 THEN Integer(0)
  ELSE Only({ Plus(score, successRate(tweets[n])) :
                score \in {SumRates(tweets, n - 1)} })

\* lines 280-303: the score of one template
TemplateScore(template, hist) ==
  LET recentTweets == LastN(hist, TemplateWindow)
      used == SelectSeq(recentTweets, LAMBDA t : UsedTemplate(t, template))
      matches == Len(used)
  IN  IF matches = 0 THEN Divide(Integer(1), 2)
      ELSE Only({ Divide(score, matches) :
                    score \in {SumRates(used, matches)} })

\* the body of the try block throws a TypeError: a tweet with a text meets
\* a template without content (line 289, substring of undefined), or a
\* tweet that a template matches has no accounts property (line 292)
Throws(list, hist) ==
  LET recentTweets == LastN(hist, TemplateWindow)
  IN  \E i \in 1..Len(list), j \in 1..Len(recentTweets) :
        /\ recentTweets[j].text # <<>>
        /\ \/ "content" \notin DOMAIN list[i]
           \/ /\ UsedTemplate(recentTweets[j], list[i])
              /\ "accounts" \notin DOMAIN recentTweets[j]

\* lines 280-303: templateScores, as long as nothing throws
templateScores(list, hist) ==
  [i \in 1..Len(list) |-> TemplateScore(list[i], hist)]

\* line 306: templateScores.sort((a, b) => b.score - a.score) as V8 runs it
\* on fewer than 64 elements (third_party/v8/builtins/array-sort.tq), given
\* as the places of the elements in their new order. The result of the
\* comparison function counts as 0 when it is NaN. The longest run at the
\* head of the array is found (and reversed when it descends strictly),
\* then every later element is put in by binary insertion.
sort(scores) ==
  LET n == Len(scores)
      Compare(x, y) ==
        IF scores[x].nan \/ scores[y].nan THEN 0
        ELSE Sign(scores[y], scores[x])
      descending == Compare(2, 1) < 0
      goesOn(i) == IF descending THEN Compare(i, i - 1) < 0
                   ELSE Compare(i, i - 1) >= 0
      runLength == CHOOSE r \in 2..n :
                     /\ \A i \in 3..r : goesOn(i)
                     /\ r = n \/ ~goesOn(r + 1)
      run == [i \in 1..n |->
                IF descending /\ i <= runLength THEN runLength + 1 - i
                ELSE i]
      RECURSIVE Place(_, _, _, _)
      \* the number of elements of arr that stay before pivot, searched
      \* between left and right
      Place(arr, pivot, left, right) ==
        IF left >= right THEN left
        ELSE LET mid == left + (right - left) \div 2
             IN  IF Compare(pivot, arr[mid + 1]) < 0
                 THEN Place(arr, pivot, left, mid)
                 ELSE Place(arr, pivot, mid + 1, right)
      RECURSIVE Insert(_, _)
      \* the elements after the first start ones put in, one by one
      Insert(arr, start) ==
        IF start >= n THEN arr
        ELSE LET pivot == arr[start + 1]
                 left == Place(arr, pivot, 0, start)
             IN  Insert([i \in 1..n |->
                           IF i <= left THEN arr[i]
                           ELSE IF i = left + 1 THEN pivot
                           ELSE IF i <= start + 1 THEN arr[i - 1]
                           ELSE arr[i]],
                        start + 1)
  IN  IF n < 2 THEN [i \in 1..n |-> i] ELSE Insert(run, runLength)

\* selectSmartTemplate returning null when there is no history
selectSmartTemplateNeedsHistory(tpls, hist) ==
  IF tpls = NoValue \/ tpls[1] = <<>> \/ hist = <<>> THEN {NoValue}
  ELSE { Some(tpls[1][i]) : i \in 1..Len(tpls[1]) }

\* lines 268-320: the templates the call can return (none for null), over
\* the draws of Math.random()
selectSmartTemplate(tpls, hist) ==
  IF tpls = NoValue \/ tpls[1] = <<>> THEN {NoValue}
  ELSE LET list == tpls[1]
           n == Len(list)
       IN  IF hist = <<>> \/ Throws(list, hist)
           THEN { Some(list[i]) : i \in 1..n }
           ELSE LET top == IF n < TopCount THEN n ELSE TopCount
                    \* the places of the first min(3, n) after the sort
                    topThree ==
                      Only({ { sort(scores)[k] : k \in 1..top } :
                               scores \in {templateScores(list, hist)} })
                IN  { Some(list[i]) : i \in topThree }

\* what a call has computed and returned: the scores of line 280 in list
\* order (none when no score was computed) and one of the templates that
\* the call can return
Selections(tpls, hist) ==
  LET scored == /\ tpls # NoValue
                /\ tpls[1] # <<>>
                /\ hist # <<>>
                /\ ~Throws(tpls[1], hist)
  IN  { [returned |-> TRUE, template |-> t, scores |-> scores] :
          t \in selectSmartTemplate(tpls, hist),
          scores \in { IF scored THEN templateScores(tpls[1], hist)
                       ELSE <<>> } }

\* content_templates.json: templates A to E, A with a content longer than
\* the prefix that line 289 looks for, and a template without content
Sample ==
  [A |-> Template("A", Chars(PrefixLength + 1, "a")),
   B |-> Template("B", <<"b">>),
   C |-> Template("C", <<"c">>),
   D |-> Template("D", <<"d">>),
   E |-> Template("E", <<"e">>),
   F |-> [name |-> "F"]]

\* the lists handed to selectSmartTemplate: none (the file has no templates
\* key), an empty one, lists of one to five templates and a list with the
\* template without content
TemplateLists ==
  { NoValue, Some(<<>>), Some(<<Sample.A>>), Some(<<Sample.E>>),
    Some(<<Sample.A, Sample.B>>),
    Some(<<Sample.D, Sample.C, Sample.B>>),
    Some(<<Sample.A, Sample.B, Sample.C, Sample.D>>),
    Some(<<Sample.A, Sample.B, Sample.C, Sample.D, Sample.E>>),
    Some(<<Sample.A, Sample.B, Sample.C, Sample.D, Sample.F>>) }

\* a stored entry with the given text, one account record per element of
\* oks: TRUE for a success, FALSE for a failure
PostedEntry(text, oks) ==
  [text |-> text,
   accounts |->
     [i \in 1..Len(oks) |->
        IF oks[i] THEN AccountRecord(SuccessResult(i, Some(ProviderId)))
        ELSE AccountRecord(FailureResult(i, MkError(Some(ForbiddenStatus),
                                                    Messages.forbidden)))]]

\* tweet_history.json: empty; one tweet per template with different rates;
\* several tweets of a template and a tweet of two templates; a tweet of
\* template B older than the last 20; tweets of template B with the rates
\* 1/2, 2/3 and 1/3, whose sum and mean are rounded, next to a tweet of
\* template C with the rate 1/2; a tweet with an empty text; a tweet without
\* accounts. saveTweetHistory writes every entry but the last kind (lines
\* 462-465 and 492: it is handed one result at least); that one is an
\* entry of a file that was not written by the program
TemplateHistories ==
  { <<>>,
    << PostedEntry(Chars(PrefixLength, "a"), <<FALSE>>),
       PostedEntry(<<"b">>, <<TRUE, TRUE>>),
       PostedEntry(<<"c">>, <<TRUE, FALSE>>),
       PostedEntry(<<"d">>, <<FALSE, FALSE>>) >>,
    << PostedEntry(<<"b">>, <<TRUE>>),
       PostedEntry(<<"b">>, <<FALSE, FALSE>>),
       PostedEntry(<<"b", "c">>, <<TRUE, FALSE>>),
       PostedEntry(Chars(PrefixLength - 1, "a"), <<FALSE>>) >>,
    << PostedEntry(<<"b">>, <<FALSE>>) >>
      \o [i \in 1..TemplateWindow |-> PostedEntry(<<"e">>, <<TRUE>>)],
    << PostedEntry(<<"d">>, <<TRUE>>) >>
      \o [i \in 1..(TemplateWindow - 1) |-> PostedEntry(<<"e">>, <<FALSE>>)],
    << PostedEntry(<<"b">>, <<TRUE, FALSE>>),
       PostedEntry(<<"b">>, <<TRUE, TRUE, FALSE>>),
       PostedEntry(<<"b">>, <<TRUE, FALSE, FALSE>>),
       PostedEntry(<<"c">>, <<FALSE, TRUE>>) >>,
    << PostedEntry(<<>>, <<FALSE>>) >>,
    << PostedEntry(Chars(PrefixLength, "a"), <<FALSE>>),
       PostedEntry(<<"b">>, <<>>),
       PostedEntry(<<"c">>, <<TRUE>>),
       PostedEntry(<<"d">>, <<TRUE, FALSE>>) >> }

InitTemplate ==
  /\ simEnv = FALSE
  /\ clock = 1
  /\ failedTweets = <<>>
  /\ history \in TemplateHistories
  /\ pc = "idle"
  /\ tweetText = <<>>
  /\ clientObj = NoHandle
  /\ config = MkConfig(FALSE, NoValue, NoValue)
  /\ retryCount = 0
  /\ uniqueTweet = <<>>
  /\ result = NoResult
  /\ lastOutcome = NoOutcome
  /\ calls = <<>>
  /\ sleeps = <<>>
  /\ origText = <<>>
  /\ origRetry = 0
  /\ failedBefore = <<>>
  /\ dpc = "idle"
  /\ dText = <<>>
  /\ twitterClients = <<>>
  /\ dIdx = 0
  /\ results = <<>>
  /\ delayMs = 0
  /\ accountsFile = <<>>
  /\ spc = "idle"
  /\ localFailedTweets = <<>>
  /\ tweetsByAccount = <<>>
  /\ gIdx = 0
  /\ tIdx = 0
  /\ replayed = <<>>
  /\ writes = 0
  /\ runs = <<>>
  /\ templatesExist = TRUE
  /\ templates \in TemplateLists
  /\ selected = NoSelection

\* a caller invokes selectSmartTemplate(templates, history) (line 601)
SelectTemplate ==
  /\ selected' \in Selections(templates, history)
  /\ UNCHANGED <<simEnv, clock, failedTweets, history, chainVars,
                 dispatchVars, sweepVars, writes, runs, templatesExist,
                 templates>>

NextTemplate == SelectTemplate

SpecTemplate == InitTemplate /\ [][NextTemplate]_vars

----------------------------------------------------------------------------
(* The configuration module (unnamed/part_000): the files that run reads   *)
(* and creates                                                             *)

\* accounts.txt does not exist: a file that exists has at least one line
AbsentFile == <<>>

\* lines 74-77: the four comment lines of the sample file
SampleAccountsFile == [i \in 1..4 |-> CommentLine]

\* lines 72-82: accounts.txt after a call of readAccountsFromFile
AccountsFileRead(file) ==
  IF file = AbsentFile THEN SampleAccountsFile ELSE file

DefaultTemplates ==
  << Template("Project Introduction",
              <<"G", "i", "v", "e", "R", "e", "p", " ", "p", "r", "o", "j",
                 "e", "c", "t", " ", "o", "n", " ", "S", "u", "i", " ",
                 "n", "e", "t", "w", "o", "r", "k", " ", "i", "s", " ",
                 "l", "a", "u", "n", "c", "h", "i", "n", "g", " ", "a",
                 "n", " ", "a", "i", "r", "d", "r", "o", "p", "!", " ",
                 "J", "o", "i", "n", " ", "n", "o", "w", " ", "a", "n",
                 "d", " ", "e", "a", "r", "n", " ", "r", "e", "w", "a",
                 "r", "d", "s", ".", " ", "J", "o", "i", "n", " ", "t",
                 "h", "e", " ", "c", "o", "m", "m", "u", "n", "i", "t",
                 "y", " ", "a", "n", "d", " ", "s", "h", "a", "r", "e",
                 " ", "y", "o", "u", "r", " ", "e", "x", "p", "e", "r",
                 "i", "e", "n", "c", "e", "!">>),
     Template("How to Participate",
              <<"T", "o", " ", "p", "a", "r", "t", "i", "c", "i", "p", "a",
                 "t", "e", " ", "i", "n", " ", "G", "i", "v", "e", "R",
                 "e", "p", " ", "p", "r", "o", "j", "e", "c", "t", " ",
                 "a", "n", "d", " ", "r", "e", "c", "e", "i", "v", "e",
                 " ", "r", "e", "w", "a", "r", "d", "s", ",", " ", "s",
                 "i", "m", "p", "l", "y", " ", "r", "e", "g", "i", "s",
                 "t", "e", "r", " ", "o", "n", " ", "t", "h", "e", " ",
                 "o", "f", "f", "i", "c", "i", "a", "l", " ", "w", "e",
                 "b", "s", "i", "t", "e", " ", "a", "n", "d", " ", "c",
                 "o", "m", "p", "l", "e", "t", "e", " ", "t", "h", "e",
                 " ", "v", "e", "r", "i", "f", "i", "c", "a", "t", "i",
                 "o", "n", " ", "s", "t", "e", "p", "s", ".">>) >>

\* lines 164-210: the list getContentTemplates returns, the file holding
\* the list tpls if it exists; a file it creates holds the default list
getContentTemplates(exists, tpls) ==
  IF ~exists THEN Some(DefaultTemplates) ELSE tpls

----------------------------------------------------------------------------
(* generateTweet and detectLanguage (aiService.js, lines 11-37 and         *)
(* 131-266)                                                                *)
(*                                                                         *)
(* A character outside ASCII is one element named by its code unit, as    *)
(* CodeUnit writes it. The handler of line 253 is not reached:             *)
(* getAlternativeAIText catches its own errors and the failures of the     *)
(* generator are caught at line 236.                                       *)

\* line 11: REQUIRED_TAGS
REQUIRED_TAGS ==
  <<"#", "F", "R", "3", "3", "G", "4", "Z", "4", " ", "@", "p", "e", "l",
     "e", "s", "t", "i", "n", "_", "2", "0", "2", "2", " ", "#", "U+063A",
     "U+0632", "U+0629", " ", "h", "t", "t", "p", "s", ":", "/", "/", "x",
     ".", "c", "o", "m", "/", "P", "e", "l", "e", "s", "t", "i", "n", "_",
     "2", "0", "2", "2", "/", "s", "t", "a", "t", "u", "s", "/", "1", "9",
     "3", "9", "9", "8", "6", "0", "1", "4", "8", "2", "0", "3", "1", "5",
     "5", "2", "9">>

\* the UTF-16 code unit n as an element of a string: "U+" and its four
\* hexadecimal digits
CodeUnit(n) ==
  LET digit(d) == <<"0", "1", "2", "3", "4", "5", "6", "7", "8", "9", "A",
                    "B", "C", "D", "E", "F">>[d + 1]
  IN  "U+" \o digit(n \div 4096) \o digit((n \div 256) % 16)
           \o digit((n \div 16) % 16) \o digit(n % 16)

\* lines 20-28: the character classes of the patterns of fa
\* (U+0600..U+06FF), ar (U+0621..U+064A), ru (U+0400..U+04FF), zh
\* (U+4E00..U+9FFF), ja (U+3040..U+30FF) and ko (U+AC00..U+D7AF)
langPatterns ==
  [fa |-> { CodeUnit(n) : n \in 1536..1791 },
   ar |-> { CodeUnit(n) : n \in 1569..1610 },
   ru |-> { CodeUnit(n) : n \in 1024..1279 },
   zh |-> { CodeUnit(n) : n \in 19968..40959 },
   ja |-> { CodeUnit(n) : n \in 12352..12543 },
   ko |-> { CodeUnit(n) : n \in 44032..55215 }]

\* lines 18-37: the first pattern that matches, in the order fa, ar, en,
\* ru, zh, ja, ko. The pattern of en, /^[A-Za-z0-9\s\W]*$/, matches every
\* text without "_": \W holds every character but the letters, the digits
\* and "_"
detectLanguage(text) ==
  LET test(letters) == \E i \in 1..Len(text) : text[i] \in letters IN
  IF test(langPatterns.fa) THEN "fa"
  ELSE IF test(langPatterns.ar) THEN "ar"
  ELSE IF \A i \in 1..Len(text) : text[i] # "_" THEN "en"
  ELSE IF test(langPatterns.ru) THEN "ru"
  ELSE IF test(langPatterns.zh) THEN "zh"
  ELSE IF test(langPatterns.ja) THEN "ja"
  ELSE IF test(langPatterns.ko) THEN "ko"
  ELSE "unknown"

\* the white space and the line terminators of ECMAScript: TAB, LF, VT,
\* FF, CR, SP, NBSP, U+1680, U+2000..U+200A, LS, PS, U+202F, U+205F,
\* U+3000 and the byte order mark
WhiteSpace ==
  {"\t", "\n", "\f", "\r", " "}
    \cup { CodeUnit(n) : n \in {11, 160, 5760, 8232, 8233, 8239, 8287,
                                12288, 65279} }
    \cup { CodeUnit(n) : n \in 8192..8202 }

RECURSIVE trim(_)
\* String.prototype.trim
trim(s) ==
  IF s = <<>> THEN s
  ELSE IF Head(s) \in WhiteSpace THEN trim(Tail(s))
  ELSE IF s[Len(s)] \in WhiteSpace THEN trim(SubSeq(s, 1, Len(s) - 1))
  ELSE s

\* what aiClient.chat.completions.create settles to: a response whose
\* first choice has a content, a response without one, or a rejection
Answer(content) == [kind |-> "answer", content |-> Some(content)]
NoAnswer == [kind |-> "answer", content |-> NoValue]
ApiError == [kind |-> "error", content |-> NoValue]

\* `${text} ${REQUIRED_TAGS}`
WithTags(text) == text \o <<" ">> \o REQUIRED_TAGS

\* lines 215-216 and 247-248: the main text cut to make room for the tags
Truncate(text) ==
  substring(text, MaxTweetLength - Len(REQUIRED_TAGS) - 1)
    \o <<".", ".", ".">>

\* lines 131-266: the text generateTweet resolves to; aiClient tells
\* whether there is a client whose service is not "Fallback",
\* alternativeText is what getAlternativeAIText resolves to
generateTweet(aiClient, outcome, alternativeText) ==
  IF ~aiClient
  THEN WithTags(alternativeText)
  ELSE LET tweet == IF outcome.content = NoValue THEN <<>>
                    ELSE trim(outcome.content[1])
       IN  IF outcome.kind = "error" \/ tweet = <<>>
           THEN \* lines 236-251
                IF Len(WithTags(alternativeText)) > MaxTweetLength
                THEN WithTags(Truncate(alternativeText))
                ELSE WithTags(alternativeText)
           ELSE IF detectLanguage(tweet) # "en"
           THEN WithTags(alternativeText)
           ELSE IF Len(WithTags(tweet)) > MaxTweetLength
           THEN WithTags(Truncate(tweet))
           ELSE WithTags(tweet)

\* lines 96-107: the first of the hardcoded responses
AlternativeText ==
  <<"G", "i", "v", "e", "R", "e", "p", " ", "p", "r", "o", "j", "e", "c",
     "t", " ", "o", "n", " ", "S", "u", "i", " ", "n", "e", "t", "w", "o",
     "r", "k", " ", "i", "s", " ", "n", "o", "w", " ", "d", "i", "s", "t",
     "r", "i", "b", "u", "t", "i", "n", "g", " ", "a", "i", "r", "d", "r",
     "o", "p", "s", "!", " ", "J", "o", "i", "n", " ", "t", "h", "e", " ",
     "c", "o", "m", "m", "u", "n", "i", "t", "y", " ", "a", "n", "d", " ",
     "e", "a", "r", "n", " ", "r", "e", "w", "a", "r", "d", "s", " ", "b",
     "y", " ", "p", "a", "r", "t", "i", "c", "i", "p", "a", "t", "i", "n",
     "g", ".", " ", "R", "e", "g", "i", "s", "t", "e", "r", " ", "n", "o",
     "w", " ", "b", "e", "f", "o", "r", "e", " ", "r", "e", "w", "a", "r",
     "d", "s", " ", "r", "u", "n", " ", "o", "u", "t", "!">>

\* answers of the generator: one that leaves no room for the duplicate
\* marker, one that is too long with the tags, one that holds the tag
\* "@giverep", one with white space around it, one with "_" and one in
\* Persian, which are not taken for English
Answers ==
  [nearLimit |-> Chars(MaxTweetLength - Len(REQUIRED_TAGS) - 6, "g"),
   tooLong |-> Chars(MaxTweetLength - Len(REQUIRED_TAGS) + 4, "g"),
   tagged |-> <<"j", "o", "i", "n", " ">> \o Tag \o <<" ", "n", "o", "w">>,
   padded |-> <<"\t", "h", "i", "\r", "\n">>,
   snake |-> <<"g", "i", "v", "e", "_", "r", "e", "p">>,
   persian |-> <<"U+0633", "U+0644", "U+0627", "U+0645">>]

Generation(aiClient, outcome) ==
  [aiClient |-> aiClient, outcome |-> outcome,
   alternativeText |-> AlternativeText]

\* the generations of the scheduled runs
Generations ==
  { Generation(TRUE, Answer(THi)),
    Generation(TRUE, Answer(Answers.nearLimit)),
    Generation(TRUE, Answer(Answers.tooLong)),
    Generation(TRUE, Answer(Answers.tagged)),
    Generation(TRUE, Answer(Answers.padded)),
    Generation(TRUE, Answer(Answers.snake)),
    Generation(TRUE, Answer(Answers.persian)),
    Generation(TRUE, NoAnswer),
    Generation(TRUE, ApiError),
    Generation(FALSE, ApiError) }

----------------------------------------------------------------------------
(* scheduleRuns (utils/index.js, lines 45-58) and run (lines 553-636 of    *)
(* the main module)                                                        *)
(*                                                                         *)
(* scheduleRuns calls run at once and again from every setInterval tick,   *)
(* without keeping the promise run returns. Each run is an activation of   *)
(* its own: runs[i] holds the locals of the i-th activation of run, of its *)
(* postTweetToAllAccounts and of the postTweetWithClient chain in          *)
(* progress. The activations share the process (one thread: a step is the  *)
(* code between two awaits), failed_tweets.json and tweet_history.json.    *)
(* The transport and the content generator answer after an arbitrary time, *)
(* so no order is assumed between a tick and the other wake-ups.           *)

\* the activation of run at its first await (generateTweet, line 611), with
\* the pool and the configuration it has read from accounts.txt and the
\* configuration file
NewRun(pool, cfg) ==
  [rpc |-> "generating", pool |-> pool, cfg |-> cfg, text |-> <<>>,
   idx |-> 0, current |-> <<>>, unique |-> <<>>, retry |-> 0,
   results |-> <<>>]

\* what a step of an activation leaves behind: its locals, the two files
\* and the clock
Effect(run, failed, hist, clk) ==
  [run |-> run, failed |-> failed, hist |-> hist, clk |-> clk]

\* lines 311-352 for the activation: postTweetWithClient(text, pool[idx],
\* cfg, retry) up to its first await or its return; lines 481-495 when it
\* returns
RECURSIVE RunInvoke(_, _, _, _, _, _)
RunSettled(run, res, failed, hist, clk) ==
  LET pushed == PushResult(run.results, res)
      base == [run EXCEPT !.results = pushed, !.current = <<>>,
                          !.unique = <<>>, !.retry = 0]
  IN  IF run.pool[run.idx] # run.pool[Len(run.pool)]
      THEN \* lines 484-487
           Effect([base EXCEPT !.rpc = "sleeping"], failed, hist, Tick(clk))
      ELSE IF run.idx < Len(run.pool)
      THEN RunInvoke([base EXCEPT !.idx = run.idx + 1], run.text,
                     DispatchBudget(run.cfg), failed, hist, clk)
      ELSE \* lines 492-495 and 627-631
           Effect([base EXCEPT !.rpc = "returned"], failed,
                  saveTweetHistory(hist, run.text, pushed), clk)

\* lines 371-415 for the activation
RunCatch(run, text, retry, twitterError, failed, hist, clk) ==
  LET handle == run.pool[run.idx] IN
  IF twitterError.code = Some(RateLimitStatus) /\ retry > 0
  THEN Effect([run EXCEPT !.rpc = "waiting", !.current = text,
                          !.retry = retry],
              failed, hist, Tick(clk))
  ELSE IF twitterError.code = Some(DuplicateCode) /\ retry > 0
  THEN Effect([run EXCEPT !.rpc = "pausing", !.current = text,
                          !.retry = retry,
                          !.unique = Mutate(text, Readings[clk])],
              failed, hist, Tick(clk))
  ELSE RunSettled(run, FailureResult(handle.accountNumber, twitterError),
                  saveFailedTweet(failed, text, handle.accountNumber),
                  hist, clk)

RunInvoke(run, text, retry, failed, hist, clk) ==
  LET handle == run.pool[run.idx] IN
  IF simulationMode(run.cfg)
  THEN RunSettled(run, SimulatedResult(handle.accountNumber), failed, hist,
                  clk)
  ELSE IF ValidationError(text) # NoValue
  THEN RunCatch(run, text, retry, ValidationError(text)[1], failed, hist,
                clk)
  ELSE Effect([run EXCEPT !.rpc = "publishing", !.current = text,
                          !.retry = retry],
              failed, hist, clk)

\* lines 352-370 and 371-415 for the activation
RunOutcome(run, o, failed, hist, clk) ==
  IF o.kind = "response"
  THEN IF HasId(o)
       THEN RunSettled(run,
                       SuccessResult(run.pool[run.idx].accountNumber, o.id),
                       failed, hist, clk)
       ELSE RunCatch(run, run.current, run.retry,
                     MkError(NoValue, Messages.invalidResponse),
                     failed, hist, clk)
  ELSE RunCatch(run, run.current, run.retry, o.error[1], failed, hist, clk)

\* the step of activation i takes effect
Apply(i, eff) ==
  /\ runs' = [runs EXCEPT ![i] = eff.run]
  /\ failedTweets' = eff.failed
  /\ history' = eff.hist
  /\ clock' = eff.clk

\* the answers of the transport while runs are scheduled
ScheduledOutcomes ==
  { Response(Some(ProviderId)),
    Rejection(Some(RateLimitStatus), Messages.tooManyRequests),
    Rejection(Some(DuplicateCode), Messages.duplicateStatus) }

\* lines 49 and 52-56 of scheduleRuns, lines 553-611 of run: runFunction is
\* called, now or by the timer, and runs up to its first await.
\* config.json exists and config is what it holds; readAccountsFromFile
\* creates accounts.txt if it is missing; with an empty pool run returns at
\* line 591, else it reads the history and the templates
\* (getContentTemplates creates content_templates.json if it is missing)
\* and selects a template
ScheduleTick ==
  /\ Len(runs) < MaxRuns
  /\ accountsFile' = AccountsFileRead(accountsFile)
  /\ LET pool == readAccountsFromFile(accountsFile)
         list == getContentTemplates(templatesExist, templates)
     IN  IF Len(pool) = 0
         THEN /\ runs' = Append(runs, [NewRun(pool, config)
                                         EXCEPT !.rpc = "returned"])
              /\ UNCHANGED templateVars
         ELSE /\ runs' = Append(runs, NewRun(pool, config))
              /\ templatesExist' = TRUE
              /\ templates' = list
              /\ selected' \in Selections(list, history)
  /\ UNCHANGED <<simEnv, clock, failedTweets, history, chainVars,
                 dispatchVars, spc, localFailedTweets, tweetsByAccount,
                 gIdx, tIdx, replayed, writes>>

\* lines 611-624 of run and 461-479: generateTweet has settled; an empty
\* tweet ends the run (line 612; generateTweet returns none), else the
\* dispatch starts
RunGenerated ==
  \E i \in 1..Len(runs), g \in Generations :
    LET tweet == generateTweet(g.aiClient, g.outcome, g.alternativeText)
    IN
    /\ runs[i].rpc = "generating"
    /\ IF tweet = <<>>
       THEN /\ runs' = [runs EXCEPT ![i].rpc = "returned"]
            /\ UNCHANGED <<failedTweets, history, clock>>
       ELSE Apply(i, RunInvoke([runs[i] EXCEPT !.text = tweet, !.idx = 1],
                               tweet, DispatchBudget(runs[i].cfg),
                               failedTweets, history, clock))
    /\ UNCHANGED <<simEnv, chainVars, dispatchVars, sweepVars, writes,
                   templateVars>>

\* the transport call of an activation settles
RunTransport ==
  \E i \in 1..Len(runs) :
    /\ runs[i].rpc = "publishing"
    /\ \E o \in ScheduledOutcomes :
         Apply(i, RunOutcome(runs[i], o, failedTweets, history, clock))
    /\ UNCHANGED <<simEnv, chainVars, dispatchVars, sweepVars, writes,
                   templateVars>>

\* lines 381-383 for the activation
RunRetryAfterWait ==
  \E i \in 1..Len(runs) :
    /\ runs[i].rpc = "waiting"
    /\ Apply(i, RunInvoke(runs[i], runs[i].current, runs[i].retry - 1,
                          failedTweets, history, clock))
    /\ UNCHANGED <<simEnv, chainVars, dispatchVars, sweepVars, writes,
                   templateVars>>

\* lines 402-404 for the activation
RunRetryAfterPause ==
  \E i \in 1..Len(runs) :
    /\ runs[i].rpc = "pausing"
    /\ Apply(i, RunInvoke(runs[i], runs[i].unique, runs[i].retry - 1,
                          failedTweets, history, clock))
    /\ UNCHANGED <<simEnv, chainVars, dispatchVars, sweepVars, writes,
                   templateVars>>

\* lines 487 and 472-479 for the activation
RunWake ==
  \E i \in 1..Len(runs) :
    /\ runs[i].rpc = "sleeping"
    /\ Apply(i, RunInvoke([runs[i] EXCEPT !.idx = runs[i].idx + 1],
                          runs[i].text, DispatchBudget(runs[i].cfg),
                          failedTweets, history, clock))
    /\ UNCHANGED <<simEnv, chainVars, dispatchVars, sweepVars, writes,
                   templateVars>>

\* what the program finds when it is started: accounts.txt (if any), the
\* simulation flag of config.json and whether content_templates.json
\* exists (one that exists holds no list of templates)
Installation(file, sim, exists) ==
  [accountsFile |-> file, simulationMode |-> sim, templatesExist |-> exists]
Installations ==
  { Installation(<<CredLine(1), MalformedLine, CredLine(2)>>, FALSE, TRUE),
    Installation(<<CredLine(1)>>, FALSE, FALSE),
    Installation(<<CredLine(1)>>, TRUE, TRUE),
    Installation(<<BlankLine>>, FALSE, TRUE),
    Installation(AbsentFile, FALSE, FALSE) }

InitSchedule ==
  /\ simEnv = FALSE
  /\ clock = 1
  /\ failedTweets = <<>>
  /\ history = <<>>
  /\ pc = "idle"
  /\ tweetText = <<>>
  /\ clientObj = NoHandle
  /\ retryCount = 0
  /\ uniqueTweet = <<>>
  /\ result = NoResult
  /\ lastOutcome = NoOutcome
  /\ calls = <<>>
  /\ sleeps = <<>>
  /\ origText = <<>>
  /\ origRetry = 0
  /\ failedBefore = <<>>
  /\ dpc = "idle"
  /\ dText = <<>>
  /\ twitterClients = <<>>
  /\ dIdx = 0
  /\ results = <<>>
  /\ delayMs = 0
  /\ spc = "idle"
  /\ localFailedTweets = <<>>
  /\ tweetsByAccount = <<>>
  /\ gIdx = 0
  /\ tIdx = 0
  /\ replayed = <<>>
  /\ writes = 0
  /\ runs = <<>>
  /\ \E inst \in Installations :
       /\ accountsFile = inst.accountsFile
       /\ config = MkConfig(inst.simulationMode, NoValue, NoValue)
       /\ templatesExist = inst.templatesExist
       /\ templates = NoValue
  /\ selected = NoSelection

NextSchedule ==
  \/ ScheduleTick
  \/ RunGenerated
  \/ RunTransport
  \/ RunRetryAfterWait
  \/ RunRetryAfterPause
  \/ RunWake

SpecSchedule == InitSchedule /\ [][NextSchedule]_vars

----------------------------------------------------------------------------
(* Vocabulary of the claims about one attempt chain (checked under Spec) *)

\* the simulation flag is set: config.simulationMode or SIMULATION_MODE
SimFlag == simEnv \/ config.simulationMode

\* the chain has been started with an account handle
Attempted == pc # "idle" /\ clientObj.defined

ErrorCodeIn(o, codes) ==
  o.kind = "error" /\ o.error[1].code \in { Some(c) : c \in codes }

\* a provider error that the program itself explains as a rate limit
ClassifiedRateLimit(o) ==
  /\ o.kind = "error"
  /\ parseTwitterError(o.error[1], clientObj.accountNumber).explanation
       = "Rate limit exceeded."

\* a provider error whose code is neither a rate-limit nor the duplicate code
OtherError(o) ==
  /\ o.kind = "error"
  /\ o.error[1].code \notin { Some(RateLimitStatus), Some(RateLimitCode),
                              Some(DuplicateCode) }

FailedPost(text, handle) ==
  [text |-> text, accountNumber |-> handle.accountNumber]

\* the retryDelay of the configuration in ms, 300 s when none is configured
ConfiguredWaitMs(cfg) ==
  (IF cfg.retryDelay = NoValue \/ cfg.retryDelay[1] = 0
   THEN 300 ELSE cfg.retryDelay[1]) * 1000

\* new is old with a marker "[HH:MM:SS]" of 10 characters and one blank put
\* in before the first "@giverep" of old, or at the end when old has none
MarkerLen == Len(Readings[1]) + 3
TagPlace(old) ==
  IF \E i \in 1..Len(old) : OccursAt(old, Tag, i)
  THEN CHOOSE i \in 1..Len(old) :
         OccursAt(old, Tag, i) /\ \A j \in 1..(i - 1) : ~OccursAt(old, Tag, j)
  ELSE Len(old) + 1
IsMarked(old, new) ==
  LET k == TagPlace(old)
      ins == SubSeq(new, k, k + MarkerLen - 1)
  IN  /\ Len(new) = Len(old) + MarkerLen
      /\ SubSeq(new, 1, k - 1) = SubSeq(old, 1, k - 1)
      /\ SubSeq(new, k + MarkerLen, Len(new)) = SubSeq(old, k, Len(old))
      /\ \E ts \in Times :
           ins = (IF k <= Len(old)
                  THEN <<"[">> \o ts \o <<"]", " ">>
                  ELSE <<" ", "[">> \o ts \o <<"]">>)

----------------------------------------------------------------------------
(* C1: postTweetWithClient never rejects: whatever the text, the account   *)
(* handle, the configuration, the budget and the transport do, the promise *)
(* is never rejected and settles to a result object, and a result that is  *)
(* no success has success = false and carries the error that ended the     *)
(* chain: the validation error of the text, the rejection of the transport *)
(* or the error made of a response without id.                             *)
C1_NeverRejects ==
  /\ result.settled # "rejected"
  /\ pc = "done" =>
       /\ result.settled = "resolved"
       /\ result.accountNumber = Some(clientObj.accountNumber)
       /\ ~result.success =>
            /\ result.error # NoValue
            /\ result.error \in
                 { ValidationError(tweetText), lastOutcome.error,
                   Some(MkError(NoValue, Messages.invalidResponse)) }

\* a chain that used up its budget on retries ends as a failure that
\* carries the last rejection of the transport
C1_Witness ==
  /\ pc = "done"
  /\ origRetry = MaxRetry
  /\ Len(sleeps) = MaxRetry
  /\ result.settled = "resolved"
  /\ ~result.success
  /\ lastOutcome.kind = "error"
  /\ result.error = lastOutcome.error

(* C2: a chain started with budget N makes at most N retry transitions,    *)
(* rate-limit waits and duplicate mutations counted together, hence at     *)
(* most N + 1 transport calls; with budget 0 left a transient error is     *)
(* never retried but ends the chain as a failure.                          *)
C2_RetryBudget ==
  Attempted =>
    /\ Len(sleeps) <= origRetry
    /\ Len(calls) <= origRetry + 1
    /\ retryCount + Len(sleeps)
         = origRetry + (IF pc \in {"waiting", "pausing"} THEN 1 ELSE 0)
    /\ retryCount >= 0
    /\ (pc \in {"waiting", "pausing"} => retryCount > 0)
    /\ ( ( /\ pc = "done"
           /\ retryCount = 0
           /\ ErrorCodeIn(lastOutcome, {RateLimitStatus, DuplicateCode}) )
         => (result.settled = "resolved" /\ ~result.success) )

C2_Witness ==
  /\ pc = "done"
  /\ origRetry = 2
  /\ Len(calls) = 3
  /\ \E i, j \in 1..Len(sleeps) :
       sleeps[i] = DuplicatePauseMs /\ sleeps[j] # DuplicatePauseMs
  /\ ErrorCodeIn(lastOutcome, {RateLimitStatus})
  /\ ~result.success

(* C3: with simulation off a text that is empty or longer than 280 makes   *)
(* no transport call and no retry whatever the budget, and fails; so the   *)
(* transport never receives an empty or over-long text, also not after a   *)
(* mutation has lengthened the text.                                       *)
C3_ValidateFirst ==
  /\ \A i \in 1..Len(calls) :
       Len(calls[i].text) > 0 /\ Len(calls[i].text) <= 280
  /\ ( ( /\ Attempted
         /\ ~SimFlag
         /\ (Len(origText) = 0 \/ Len(origText) > 280) )
       => /\ pc = "done"
          /\ calls = <<>>
          /\ sleeps = <<>>
          /\ retryCount = origRetry
          /\ result.settled = "resolved"
          /\ ~result.success )

C3_Witness ==
  /\ pc = "done"
  /\ ~SimFlag
  /\ Len(origText) > 280
  /\ origRetry > 0
  /\ calls = <<>>
  /\ result.settled = "resolved"
  /\ ~result.success

(* C4: with simulation off and budget left, a provider error with code 429 *)
(* or code 88 leads to a wait of the configured retryDelay (300 s when     *)
(* none) and then to another attempt with the same text and the budget     *)
(* reduced by one; neither code leads to failure while budget remains.     *)
C4_RateLimitWaits ==
  [][ /\ ( ( /\ pc = "publishing"
             /\ retryCount > 0
             /\ ErrorCodeIn(lastOutcome', {RateLimitStatus, RateLimitCode})
             /\ ClassifiedRateLimit(lastOutcome') )
           => /\ pc' = "waiting"
              /\ sleeps' = Append(sleeps, ConfiguredWaitMs(config))
              /\ failedTweets' = failedTweets )
      /\ ( pc = "waiting"
           => /\ pc' = "publishing"
              /\ tweetText' = tweetText
              /\ retryCount' = retryCount - 1
              /\ calls' = Append(calls, FailedPost(tweetText, clientObj)) )
    ]_vars

(* C5 as stated: with simulation off and budget left, a provider error     *)
(* with code 187 leads to one mutation (marker before "@giverep", else at  *)
(* the end; the text differs), the budget is reduced by one and the        *)
(* transport is next invoked with the mutated text.                        *)
C5_MutateThenPublish ==
  [][ /\ ( ( /\ pc = "publishing"
             /\ retryCount > 0
             /\ ErrorCodeIn(lastOutcome', {DuplicateCode}) )
           => /\ pc' = "pausing"
              /\ uniqueTweet' # tweetText
              /\ IsMarked(tweetText, uniqueTweet')
              /\ sleeps' = Append(sleeps, 2000)
              /\ failedTweets' = failedTweets )
      /\ ( pc = "pausing"
           => /\ pc' = "publishing"
              /\ tweetText' = uniqueTweet
              /\ retryCount' = retryCount - 1
              /\ calls' = Append(calls, FailedPost(uniqueTweet, clientObj)) )
    ]_vars

(* C5 as amended: the same, except that the transport is next invoked with *)
(* the mutated text only when that text has at most 280 characters; a      *)
(* longer mutated text fails validation and the chain ends as a failure    *)
(* without a further transport call. With text "hi", budget 1 and a        *)
(* duplicate error on the first call there is exactly one mutation and     *)
(* one retry, with a text other than "hi".                                 *)
C5_MutateThenValidate ==
  /\ [][ /\ ( ( /\ pc = "publishing"
                /\ retryCount > 0
                /\ ErrorCodeIn(lastOutcome', {DuplicateCode}) )
              => /\ pc' = "pausing"
                 /\ uniqueTweet' # tweetText
                 /\ IsMarked(tweetText, uniqueTweet')
                 /\ sleeps' = Append(sleeps, 2000)
                 /\ failedTweets' = failedTweets )
         /\ ( (pc = "pausing" /\ Len(uniqueTweet) <= 280)
              => /\ pc' = "publishing"
                 /\ tweetText' = uniqueTweet
                 /\ retryCount' = retryCount - 1
                 /\ calls' = Append(calls, FailedPost(uniqueTweet, clientObj)) )
         /\ ( (pc = "pausing" /\ Len(uniqueTweet) > 280)
              => /\ pc' = "done"
                 /\ retryCount' = retryCount - 1
                 /\ calls' = calls
                 /\ ~result'.success )
       ]_vars
  /\ []( ( /\ origText = THi
           /\ origRetry = 1
           /\ sleeps # <<>>
           /\ sleeps[1] = 2000 )
         => /\ Len(sleeps) = 1
            /\ Len(calls) <= 2
            /\ calls[1].text = THi
            /\ (Len(calls) = 2 => /\ calls[2].text # THi
                                  /\ IsMarked(THi, calls[2].text)) )

C5_Witness ==
  /\ pc = "done"
  /\ origText = THi
  /\ origRetry = 1
  /\ sleeps = <<2000>>
  /\ Len(calls) = 2
  /\ calls[2].text # THi
  /\ result.success

(* C6: with simulation off, a rate-limit error received by a chain started *)
(* with budget 0 is an immediate failure: one transport call, no wait,     *)
(* success = false, and exactly one FailedPost, of the original text and   *)
(* the attempted account, appended to the failure queue.                   *)
C6_ImmediateFailure ==
  ( /\ pc = "done"
    /\ Attempted
    /\ ~SimFlag
    /\ origRetry = 0
    /\ ErrorCodeIn(lastOutcome, {RateLimitStatus, RateLimitCode}) )
  => /\ Len(calls) = 1
     /\ sleeps = <<>>
     /\ result.settled = "resolved"
     /\ ~result.success
     /\ failedTweets = Append(failedBefore, FailedPost(origText, clientObj))

C6_Witness ==
  /\ pc = "done"
  /\ ~SimFlag
  /\ origRetry = 0
  /\ ErrorCodeIn(lastOutcome, {RateLimitStatus})
  /\ failedBefore # <<>>
  /\ Len(failedTweets) = Len(failedBefore) + 1
  /\ ~result.success

(* C7: with simulation off, a provider error whose code is none of 429, 88 *)
(* and 187 ends the chain whatever budget is left: no wait, no mutation,   *)
(* no further transport call, success = false, one FailedPost enqueued for *)
(* the account.                                                            *)
C7_OtherErrorTerminal ==
  [][ ( /\ pc = "publishing"
        /\ OtherError(lastOutcome') )
      => /\ pc' = "done"
         /\ sleeps' = sleeps
         /\ calls' = calls
         /\ uniqueTweet' = uniqueTweet
         /\ result'.settled = "resolved"
         /\ ~result'.success
         /\ result'.accountNumber = Some(clientObj.accountNumber)
         /\ failedTweets' = Append(failedTweets,
                                   FailedPost(tweetText, clientObj))
    ]_vars

C7_Witness ==
  /\ pc = "done"
  /\ OtherError(lastOutcome)
  /\ origRetry = 2
  /\ retryCount = 1
  /\ Len(sleeps) = 1
  /\ ~result.success
  /\ Len(failedTweets) = Len(failedBefore) + 1

(* C8: a result with success = true carries a non-empty identifier: the    *)
(* provider's id and the URL derived from it when the transport answered,  *)
(* a generated id when simulated; a response without an id (missing or     *)
(* empty) is never reported as a success.                                  *)
C8_SuccessHasId ==
  /\ result.success =>
       /\ result.settled = "resolved"
       /\ result.id # NoValue
       /\ Len(result.id[1]) > 0
       /\ (result.simulated => SimFlag /\ calls = <<>>)
       /\ (~result.simulated =>
             /\ lastOutcome.kind = "response"
             /\ result.id = lastOutcome.id
             /\ result.tweetUrl = Some(UrlBase \o lastOutcome.id[1]))
  /\ ( ( /\ pc = "done"
         /\ lastOutcome.kind = "response"
         /\ lastOutcome.id \in {NoValue, Some(<<>>)} )
       => ~result.success )

C8_Witness ==
  /\ pc = "done"
  /\ result.success
  /\ ~result.simulated
  /\ result.id = Some(ProviderId)
  /\ Len(calls) = 2

(* C9: with the simulation flag set (config.simulationMode or the          *)
(* environment variable) an attempt goes straight to SIMULATE: no          *)
(* transport call, no validation (an empty or over-long text succeeds      *)
(* too), success = true and simulated = true with a generated id, and the  *)
(* failure queue unchanged.                                                *)
C9_SimulationBypass ==
  (Attempted /\ SimFlag) =>
    /\ pc = "done"
    /\ calls = <<>>
    /\ sleeps = <<>>
    /\ result.settled = "resolved"
    /\ result.success
    /\ result.simulated
    /\ result.id # NoValue
    /\ Len(result.id[1]) > 0
    /\ result.accountNumber = Some(clientObj.accountNumber)
    /\ failedTweets = failedBefore

C9_Witness ==
  /\ pc = "done"
  /\ simEnv
  /\ ~config.simulationMode
  /\ Len(origText) > 280
  /\ result.success
  /\ result.simulated

----------------------------------------------------------------------------
(* C10: postTweetToAllAccounts returns one result per account of the list, *)
(* in list order, each with that account's number; a failed attempt for    *)
(* one account neither stops the loop nor skips a later account.           *)
C10_OneResultPerAccount ==
  /\ dpc # "threw"
  /\ dpc \in {"posting", "sleeping", "returned"} =>
       /\ Len(results) <= Len(twitterClients)
       /\ \A i \in 1..Len(results) :
            /\ results[i].settled = "resolved"
            /\ results[i].accountNumber = Some(twitterClients[i].accountNumber)
  /\ dpc = "posting" =>
       /\ Len(results) = dIdx - 1
       /\ clientObj = twitterClients[dIdx]
       /\ ENABLED NextDispatch
  /\ dpc = "sleeping" =>
       /\ Len(results) = dIdx
       /\ dIdx < Len(twitterClients)
       /\ ENABLED NextDispatch
  /\ dpc = "returned" => Len(results) = Len(twitterClients)

C10_Witness ==
  /\ dpc = "returned"
  /\ Len(twitterClients) = 2
  /\ Len(results) = 2
  /\ ~results[1].success
  /\ results[2].success
  /\ ~results[2].simulated

----------------------------------------------------------------------------
(* Vocabulary of the claims about the history store *)

\* entry holds the text and one record per result of rs, in the order of rs
Aggregates(entry, text, rs) ==
  /\ entry.text = text
  /\ Len(entry.accounts) = Len(rs)
  /\ \A i \in 1..Len(rs) :
       /\ entry.accounts[i].accountNumber = rs[i].accountNumber
       /\ entry.accounts[i].success = rs[i].success

\* new is old with one entry added at the end, the oldest entries dropped
\* where the result would be longer than 100
AppendedCapped(old, new) ==
  LET dropped == Len(old) + 1 - Len(new) IN
  /\ Len(new) = (IF Len(old) + 1 > 100 THEN 100 ELSE Len(old) + 1)
  /\ \A i \in 1..(Len(new) - 1) : new[i] = old[i + dropped]

\* a step of the dispatch loop that ends the run
Completes == dpc # "returned" /\ dpc' = "returned"

(* C11 as stated: every run of the dispatch loop completes, and when it    *)
(* completes it has appended exactly one entry to the history store, after *)
(* the last account's attempt, holding the dispatched text and one record  *)
(* per result in dispatch order; whatever the outcomes and for every       *)
(* account list.                                                           *)
C11_AlwaysWritesEntry ==
  /\ [][ /\ ( history' # history
              => /\ Completes
                 /\ dpc = "posting"
                 /\ dIdx = Len(twitterClients) )
         /\ ( Completes
              => /\ Len(results') = Len(twitterClients')
                 /\ AppendedCapped(history, history')
                 /\ Aggregates(history'[Len(history')], dText', results') )
       ]_vars
  /\ (dpc \in {"posting", "sleeping"} ~> dpc = "returned")

(* C11 as amended: the same for every account list that is not empty; a    *)
(* dispatch over an empty list returns at once with no results and leaves  *)
(* the history store as it is.                                             *)
C11_NonEmptyWritesEntry ==
  /\ [][ /\ ( history' # history
              => /\ Completes
                 /\ dpc = "posting"
                 /\ dIdx = Len(twitterClients) )
         /\ ( (Completes /\ Len(twitterClients') > 0)
              => /\ Len(results') = Len(twitterClients')
                 /\ AppendedCapped(history, history')
                 /\ Aggregates(history'[Len(history')], dText', results') )
         /\ ( (Completes /\ Len(twitterClients') = 0)
              => /\ results' = <<>>
                 /\ history' = history )
       ]_vars
  /\ (dpc \in {"posting", "sleeping"} ~> dpc = "returned")

C11_Witness ==
  /\ dpc = "returned"
  /\ Len(twitterClients) = 2
  /\ Len(history) = 2
  /\ history[1] = OldEntry
  /\ Aggregates(history[2], dText, results)
  /\ results[1].success
  /\ ~results[2].success

(* C12: after any number of saveTweetHistory writes the history store      *)
(* holds at most 100 entries; a write appends the new entry at the end and *)
(* drops the oldest entries of a store that would grow beyond 100; the     *)
(* entries kept are unchanged and in their former order.                   *)
C12_CappedFifo ==
  /\ [](Len(history) <= 100)
  /\ [][ writes' # writes
         => /\ AppendedCapped(history, history')
            /\ (Len(history) < 100
                  => /\ Len(history') = Len(history) + 1
                     /\ \A i \in 1..Len(history) : history'[i] = history[i])
            /\ (Len(history) = 100
                  => /\ Len(history') = 100
                     /\ \A i \in 1..99 : history'[i] = history[i + 1])
       ]_vars

C12_Witness ==
  /\ writes = 2
  /\ Len(history) = 100
  /\ history[1] = StoredEntry(3)
  /\ history[98] = StoredEntry(100)
  /\ history[99].text = THi
  /\ history[100].text = TNoRoom

----------------------------------------------------------------------------
(* C13: between two consecutive accounts of a dispatch there is exactly    *)
(* one pacing wait and none after the last account; the wait is the delay  *)
(* calculated for the account number of the next account to be posted to,  *)
(* on the history store as it is read at that moment.                      *)
C13_DelayForNextAccount ==
  /\ dpc = "sleeping" =>
       /\ dIdx < Len(twitterClients)
       /\ Len(results) = dIdx
       /\ \E randomFactor \in RandomFactors :
            delayMs = calculateSmartDelay(
                        twitterClients[dIdx + 1].accountNumber,
                        history, randomFactor)
  /\ dpc # "sleeping" => delayMs = 0

----------------------------------------------------------------------------
(* Vocabulary of the claims about the retry sweep (checked under SpecSweep) *)

\* the number of entries of queue that are equal to e
Count(queue, e) == Cardinality({ i \in 1..Len(queue) : queue[i] = e })

Entries(queue) == { queue[i] : i \in 1..Len(queue) }

\* the sweep is running
Sweeping == spc \in {"replaying", "resting"}

\* the step in which the sweep takes the result of a replay
ReplayEnds == spc = "replaying" /\ pc = "done" /\ spc' # "replaying"

\* the (accountNumber, text) pair of the running replay
ReplayedPair == FailedPost(origText, clientObj)

\* the account pool holds a handle for account n
Pooled(n) ==
  \E i \in 1..Len(twitterClients) : twitterClients[i].accountNumber = n

\* line k of accounts.txt holds four non-empty fields
IsCredLine(k) ==
  /\ ~accountsFile[k].comment
  /\ Len(accountsFile[k].parts) = 4
  /\ \A j \in 1..4 : accountsFile[k].parts[j] # <<>>

\* the sweep was handed a pool with a handle for account n: the accounts
\* of accounts.txt, numbered from 1
PooledAtStart(n) ==
  n \in 1..Cardinality({ k \in 1..Len(accountsFile) : IsCredLine(k) })

\* accounts.txt has a line of four non-empty fields at the place that lazy
\* resolution numbers n
LineFor(n) ==
  \E k \in 1..Len(accountsFile) :
    /\ IsCredLine(k)
    /\ k - Cardinality({ b \in 1..Len(accountsFile) :
                           \/ accountsFile[b].comment
                           \/ accountsFile[b].parts = << <<>> >> }) = n

\* the account is not in the pool and lazy resolution fails
Unresolvable(n) == ~PooledAtStart(n) /\ ~LineFor(n)

RECURSIVE ReplaysDue(_)
\* the queued entries of the groups that have a handle, group after group
ReplaysDue(groups) ==
  IF groups = <<>> THEN <<>>
  ELSE (IF Unresolvable(Head(groups).accountNumber) THEN <<>>
        ELSE Head(groups).tweets) \o ReplaysDue(Tail(groups))

\* every entry due has been replayed, once, in order
AllReplayed ==
  /\ Len(replayed) = Len(ReplaysDue(tweetsByAccount))
  /\ \A i \in 1..Len(replayed) :
       /\ replayed[i].accountNumber
            = ReplaysDue(tweetsByAccount)[i].accountNumber
       /\ replayed[i].text = ReplaysDue(tweetsByAccount)[i].text

RECURSIVE QueueRead(_)
\* the failure queue as the sweep read it, up to the order of the entries
QueueRead(groups) ==
  IF groups = <<>> THEN <<>>
  ELSE Head(groups).tweets \o QueueRead(Tail(groups))

(* C16: a FailedPost leaves the failure queue if and only if a replay of   *)
(* the same (accountNumber, text) pair by the retry sweep succeeds: a      *)
(* successful replay removes the pair, and no pair with another account    *)
(* or another text, and no pair whose replay failed or was not attempted,  *)
(* ever leaves the queue.                                                  *)
C16_RemovedIffReplayed ==
  [][ Sweeping =>
        /\ ( (ReplayEnds /\ result.success)
             => Count(failedTweets', ReplayedPair) = 0 )
        /\ \A e \in Entries(failedTweets) :
             e \notin Entries(failedTweets')
               => (ReplayEnds /\ result.success /\ e = ReplayedPair)
    ]_vars

(* C17: when the replay of a queued entry fails, the entry is left queued  *)
(* (the failing replay removes nothing from the queue) and the sweep goes  *)
(* on with the next entry of the group and then with the other groups: a   *)
(* failed replay never ends the sweep, which returns only after every      *)
(* entry of every group that has a handle has been replayed.               *)
C17_FailedReplayContinues ==
  /\ [][ /\ ( (ReplayEnds /\ ~result.success)
               => /\ spc' = "resting"
                  /\ failedTweets' = failedTweets
                  /\ localFailedTweets' = localFailedTweets
                  /\ Count(failedTweets', ReplayedPair)
                       >= Count(failedBefore, ReplayedPair)
                  /\ \A e \in Entries(failedBefore) :
                       Count(failedTweets', e) >= Count(failedBefore, e) )
         /\ ( spc = "resting"
              => \/ /\ spc' = "replaying"
                    /\ Len(replayed) < Len(ReplaysDue(tweetsByAccount))
                    /\ FailedPost(origText', clientObj')
                         = ReplaysDue(tweetsByAccount)[Len(replayed) + 1]
                 \/ /\ spc' = "returnedTrue"
                    /\ AllReplayed )
       ]_vars
  /\ [](spc = "returnedTrue" => AllReplayed)
  /\ [](spc = "returnedFalse" => replayed = <<>>)

C17_Witness ==
  /\ spc = "returnedTrue"
  /\ Len(replayed) = 3
  /\ ~replayed[1].success
  /\ replayed[2].success
  /\ ~replayed[3].success
  /\ replayed[1].accountNumber # replayed[2].accountNumber

(* C18: the read-modify-write of the failure queue loses no entry: a write *)
(* of the sweep keeps every entry that was enqueued after the sweep read   *)
(* the queue (by a failing replay or by another run), unless the replay of *)
(* that very entry has just succeeded.                                     *)
C18_NoLostEnqueue ==
  [][ Sweeping =>
        \A e \in Entries(failedTweets) :
          ~(ReplayEnds /\ result.success /\ e = ReplayedPair)
            => Count(failedTweets', e)
                 >= Count(localFailedTweets', e)
                    + Count(failedTweets, e) - Count(localFailedTweets, e)
    ]_vars

(* C19: when the account of a group is not in the pool and lazy resolution *)
(* fails, the whole group is skipped: no replay and no transport call is   *)
(* made for its entries, its entries all stay in the failure queue, and    *)
(* the groups of the other accounts are still replayed.                    *)
C19_UnresolvedGroupSkipped ==
  /\ spc # "idle" =>
       \A g \in 1..Len(tweetsByAccount) :
         Unresolvable(tweetsByAccount[g].accountNumber) =>
           /\ \A i \in 1..Len(replayed) :
                replayed[i].accountNumber # tweetsByAccount[g].accountNumber
           /\ \A i \in 1..Len(calls) :
                calls[i].accountNumber # tweetsByAccount[g].accountNumber
           /\ pc # "idle" =>
                clientObj.accountNumber # tweetsByAccount[g].accountNumber
           /\ \A e \in Entries(tweetsByAccount[g].tweets) :
                Count(failedTweets, e)
                  >= Count(QueueRead(tweetsByAccount), e)
  /\ spc = "returnedTrue" => AllReplayed

C19_Witness ==
  /\ spc = "returnedTrue"
  /\ \E g \in 1..Len(tweetsByAccount) :
       /\ Unresolvable(tweetsByAccount[g].accountNumber)
       /\ tweetsByAccount[g].tweets[1] \in Entries(failedTweets)
  /\ Len(replayed) = 1
  /\ replayed[1].success
  /\ replayed[1].text \notin { failedTweets[i].text : i \in 1..Len(failedTweets) }

(* C20: the account pool never holds two handles with the same account     *)
(* number: resolving an account that is pooled returns the pooled handle,  *)
(* resolving one that is not adds its handle once, every later replay of   *)
(* that account uses that same handle, and the pool never shrinks.         *)
C20_PoolHasNoDuplicates ==
  /\ [](\A i, j \in 1..Len(twitterClients) :
          twitterClients[i].accountNumber = twitterClients[j].accountNumber
            => i = j)
  /\ [](spc = "replaying" =>
          /\ clientObj \in Entries(twitterClients)
          /\ clientObj.accountNumber = tweetsByAccount[gIdx].accountNumber)
  /\ [][ Sweeping \/ spc = "idle" =>
           \/ twitterClients' = twitterClients
           \/ /\ Len(twitterClients') = Len(twitterClients) + 1
              /\ SubSeq(twitterClients', 1, Len(twitterClients))
                   = twitterClients
              /\ clientObj' = twitterClients'[Len(twitterClients')]
              /\ ~Pooled(clientObj'.accountNumber)
       ]_vars

C20_Witness ==
  /\ spc = "returnedTrue"
  /\ Len(twitterClients) = 2
  /\ readAccountsFromFile(accountsFile) = <<Handle(1)>>
  /\ twitterClients[2].accountNumber = 2
  /\ Len(replayed) = 3
  /\ replayed[2].accountNumber = 2
  /\ replayed[3].accountNumber = 2

----------------------------------------------------------------------------
\* the activations of run whose transport call has not settled yet
InFlight == { i \in 1..Len(runs) : runs[i].rpc = "publishing" }

(* C15: no two publish attempts are ever in flight at the same time, also  *)
(* not across the runs that scheduleRuns starts: a transport call starts   *)
(* only after the previous one has settled and its pacing wait is over.    *)
C15_OneAttemptInFlight ==
  /\ Cardinality(InFlight) <= 1
  /\ \A i, j \in 1..Len(runs) :
       (i < j /\ runs[j].rpc \notin {"generating", "returned"})
         => runs[i].rpc \notin {"publishing", "waiting", "pausing",
                                "sleeping"}

(* C14: for every non-negative integer maxRetries of the configuration, 0  *)
(* included, the dispatch loop starts the attempt chain of each account    *)
(* with a retry budget equal to that value.                                *)
C14_BudgetIsMaxRetries ==
  (dpc = "posting" /\ config.maxRetries # NoValue)
    => origRetry = config.maxRetries[1]

----------------------------------------------------------------------------
\* the handle the bulk load builds for account n, none when it numbers no
\* line n
BulkHandle(n) == FindClient(readAccountsFromFile(accountsFile), n)

(* C21: for every accounts.txt and every n, lazy resolution of n builds    *)
(* its handle from the line to which the bulk load gives accountNumber n,  *)
(* and finds no account exactly when the bulk load gives n to no line; so  *)
(* every handle of the pool is the one the bulk load builds for its        *)
(* number.                                                                 *)
C21_LazyResolvesBulkLine ==
  /\ \A i \in 1..Len(twitterClients) :
       BulkHandle(twitterClients[i].accountNumber) = Some(twitterClients[i])
  /\ \A n \in 1..(Len(accountsFile) + 1) :
       /\ lazyLoadTwitterClient(n, <<>>, accountsFile).client = BulkHandle(n)
       /\ (lazyLoadTwitterClient(n, <<>>, accountsFile).client = NoValue
             <=> BulkHandle(n) = NoValue)

----------------------------------------------------------------------------
\* the credentials of accounts.txt: its lines that are neither blank nor a
\* comment, in line order
Credentials == SelectSeq(accountsFile, LAMBDA l : ~Skipped(l))

RECURSIVE WellFormedFrom(_)
\* the places, from j on, of the credentials that have four non-empty fields
WellFormedFrom(j) ==
  IF j > Len(Credentials) THEN <<>>
  ELSE (IF /\ Len(Credentials[j].parts) = 4
           /\ \A f \in 1..4 : Credentials[j].parts[f] # <<>>
        THEN <<j>> ELSE <<>>) \o WellFormedFrom(j + 1)

(* C22: a malformed credential is dropped without failing the bulk load    *)
(* and without disturbing the numbers of the other accounts: the pool of a *)
(* run holds one handle per well-formed credential, numbered by the place  *)
(* of the credential in the list, and the dispatch returns one result per  *)
(* such handle; with 3 credentials of which the 2nd is malformed, 2        *)
(* results, for accountNumber 1 and accountNumber 3.                       *)
C22_MalformedDropped ==
  \A i \in 1..Len(runs) :
    /\ Len(runs[i].pool) = Len(WellFormedFrom(1))
    /\ \A k \in 1..Len(runs[i].pool) :
         /\ runs[i].pool[k].accountNumber = WellFormedFrom(1)[k]
         /\ runs[i].pool[k].appKey = Credentials[WellFormedFrom(1)[k]].parts[1]
    /\ (runs[i].rpc = "returned" /\ runs[i].idx > 0) =>
         /\ Len(runs[i].results) = Len(WellFormedFrom(1))
         /\ \A k \in 1..Len(runs[i].results) :
              runs[i].results[k].accountNumber = Some(WellFormedFrom(1)[k])

----------------------------------------------------------------------------
(* Vocabulary of the claim about the adaptive delay (checked under         *)
(* SpecDelay)                                                              *)

\* the places of the last 20 entries of hist
WindowOf(hist) ==
  { i \in 1..Len(hist) : i > Len(hist) - 20 }

\* the entry holds a result of account n, and one that is a failure
Mentions(entry, n) ==
  \E j \in 1..Len(entry.accounts) : entry.accounts[j].accountNumber = Some(n)
FailedFor(entry, n) ==
  \E j \in 1..Len(entry.accounts) :
    /\ entry.accounts[j].accountNumber = Some(n)
    /\ ~entry.accounts[j].success

AttemptsOf(hist, n) ==
  Cardinality({ i \in WindowOf(hist) : Mentions(hist[i], n) })
FailuresOf(hist, n) ==
  Cardinality({ i \in WindowOf(hist) : FailedFor(hist[i], n) })

\* the attempts and the failures of account n in the window of hist
RateOf(hist, n) ==
  [attempts |-> AttemptsOf(hist, n), failures |-> FailuresOf(hist, n)]

\* failRate r1 <= failRate r2, an account without attempts having rate 0
RateAtMost(r1, r2) ==
  \/ r1.attempts = 0
  \/ r1.failures = 0
  \/ /\ r2.attempts > 0
     /\ r1.failures * r2.attempts <= r2.failures * r1.attempts

\* the base delay of the policy in ms: 60 s, 45 s or 30 s
PolicyBase(hist, n) ==
  LET attempts == AttemptsOf(hist, n)
      failures == FailuresOf(hist, n)
  IN  IF attempts > 0 /\ 2 * failures > attempts THEN 60000
      ELSE IF attempts > 0 /\ 5 * failures > attempts THEN 45000
      ELSE 30000

(* C23: the base delay of calculateSmartDelay, before jitter, depends only *)
(* on the account's results in the last 20 history entries: 60 s when more *)
(* than half of the entries that hold the account are failures, 45 s when  *)
(* more than a fifth and at most half are, 30 s otherwise and when no      *)
(* entry holds the account; hence the base does not decrease when the      *)
(* failure rate grows, and entries older than the last 20 have no effect.  *)
C23_BaseDelayPolicy ==
  dpc = "sleeping" =>
    LET n == twitterClients[dIdx].accountNumber
        base == BaseDelay(n, history)
        rate == RateOf(history, n)
    IN
    /\ base = PolicyBase(history, n)
    /\ \E randomFactor \in RandomFactors :
         delayMs = (PolicyBase(history, n) * randomFactor) \div 1000
    /\ \A other \in DelayHistories :
         LET otherBase == BaseDelay(n, other)
             otherRate == RateOf(other, n)
         IN  /\ RateAtMost(otherRate, rate) => otherBase <= base
             /\ RateAtMost(rate, otherRate) => base <= otherBase
    /\ Len(history) > 20 =>
         base = BaseDelay(n, SubSeq(history, Len(history) - 19, Len(history)))

C23_Witness ==
  /\ dpc = "sleeping"
  /\ Len(history) > 20
  /\ FailedFor(history[1], twitterClients[dIdx].accountNumber)
  /\ AttemptsOf(history, twitterClients[dIdx].accountNumber) = 1
  /\ delayMs = 30000

----------------------------------------------------------------------------
(* Vocabulary of the claims about the template selector (checked under     *)
(* SpecTemplate)                                                           *)

\* the template list is empty or missing
NoTemplates == templates = NoValue \/ templates[1] = <<>>

\* the templates of the list
Members == { templates[1][i] : i \in 1..Len(templates[1]) }

(* C24: selectSmartTemplate returns null exactly when the template list is *)
(* empty or missing; with a list that is not empty it returns a member of  *)
(* the list, and with one template and no history that template.           *)
C24_NullIffNoTemplates ==
  selected.returned =>
    /\ (selected.template = NoValue <=> NoTemplates)
    /\ (~NoTemplates =>
          /\ selected.template # NoValue
          /\ selected.template[1] \in Members)
    /\ ( (~NoTemplates /\ Len(templates[1]) = 1 /\ history = <<>>)
         => selected.template = Some(templates[1][1]) )

C24_Witness ==
  /\ selected.returned
  /\ templates = Some(<<Sample.E>>)
  /\ history = <<>>
  /\ selected.template = Some(Sample.E)

\* every template of the list has a content to match history with
AllHaveContent ==
  \A i \in 1..Len(templates[1]) : "content" \in DOMAIN templates[1][i]

\* the history entries among the last 20 whose text holds the first 20
\* characters of the content of template t
MatchesOf(t) ==
  { i \in 1..Len(history) :
      /\ i > Len(history) - 20
      /\ \E k \in 1..Len(history[i].text) :
           OccursAt(history[i].text,
                    SubSeq(t.content, 1,
                           IF Len(t.content) < 20 THEN Len(t.content) ELSE 20),
                    k) }

\* every entry that matches t has accounts: the mean of the ratios of t is
\* a number
HasMean(t) == \A i \in MatchesOf(t) : Len(history[i].accounts) > 0

RECURSIVE Product(_)
Product(S) ==
  IF S = {} THEN 1
  ELSE LET n == CHOOSE n \in S : TRUE IN n * Product(S \ {n})

\* a number of parts that the accounts of every entry divide evenly
Unit == Product({ Len(history[i].accounts) : i \in 1..Len(history) } \ {0})

\* the successful / total ratios of the entries that match t, added up, in
\* parts of 1 / Unit
Total(t) ==
  LET ratio(i) ==
        Len(SelectSeq(history[i].accounts, LAMBDA a : a.success))
          * (Unit \div Len(history[i].accounts))
      sum[i \in 0..Len(history)] ==
        IF i = 0 THEN 0
        ELSE sum[i - 1] + (IF i \in MatchesOf(t) THEN ratio(i) ELSE 0)
  IN  sum[Len(history)]

\* the score that the claim gives t, as a fraction: the mean of the ratios
\* of the matching entries, 1/2 without a matching entry
MeanOf(t) ==
  IF MatchesOf(t) = {} THEN [num |-> 1, den |-> 2]
  ELSE [num |-> Total(t), den |-> Unit * Cardinality(MatchesOf(t))]

\* template t scores strictly higher than template u: both have a score
\* that is a number and t's is the greater one
ScoresAbove(t, u) ==
  /\ HasMean(t)
  /\ HasMean(u)
  /\ MeanOf(t).num * MeanOf(u).den > MeanOf(u).num * MeanOf(t).den

\* the number x is 0.5
IsHalf(x) ==
  /\ ~x.nan
  /\ x.limbs = [j \in 1..Len(x.limbs) |->
                  IF j = 1 THEN 2^(Binary64.limb - Binary64.integer - 1)
                  ELSE 0]

----------------------------------------------------------------------------
(* C26: every FailedPost enqueued by an attempt chain carries the text     *)
(* that was handed to the chain by its caller, also when the chain went    *)
(* through a mutation before it failed: the failure queue never receives a *)
(* text with a time-of-day marker that the caller did not supply.          *)
C26_EnqueuesOriginalText ==
  Attempted =>
    \/ failedTweets = failedBefore
    \/ /\ pc = "done"
       /\ ~result.success
       /\ failedTweets = Append(failedBefore, FailedPost(origText, clientObj))

----------------------------------------------------------------------------
\* the sweep has read the failure queue and has not been released yet
SweepBegun == spc \in {"replaying", "resting", "returnedTrue"}

(* C27: a retry sweep never grows the failure queue: with no other writer  *)
(* the queue never holds more entries than the sweep read, and a replay    *)
(* that fails leaves the queue exactly as it was before the replay (no     *)
(* second entry is added for the pair replayed).                           *)
C27_SweepNeverGrows ==
  /\ [](SweepBegun =>
          Len(failedTweets) <= Len(QueueRead(tweetsByAccount)))
  /\ [][ (ReplayEnds /\ ~result.success)
         => /\ failedTweets = failedBefore
            /\ failedTweets' = failedBefore ]_vars

\* the transport is invoked: a step that hands a text to client.v2.tweet
Publishes == pc # "publishing" /\ pc' = "publishing"

\* the replay recorded as r was a publication: the transport accepted its
\* last call
Published(r) == r.success /\ r.calls > 0

(* C28: within one sweep, once the replay of an (accountNumber, text) pair *)
(* has succeeded, the transport is not invoked again for that pair: a      *)
(* queue that holds the same pair more than once does not make the sweep   *)
(* publish the same text twice to the same account.                        *)
C28_NoSecondPublish ==
  /\ [][ (Sweeping /\ Publishes)
         => \A i \in 1..Len(replayed) :
              replayed[i].success
                => FailedPost(replayed[i].text, replayed[i])
                     # FailedPost(origText', clientObj') ]_vars
  /\ [](\A i, j \in 1..Len(replayed) :
          ( /\ Published(replayed[i])
            /\ Published(replayed[j])
            /\ replayed[i].accountNumber = replayed[j].accountNumber
            /\ replayed[i].text = replayed[j].text ) => i = j)

\* the transport has accepted a call of the replay that has just settled
Accepted ==
  /\ calls # <<>>
  /\ lastOutcome.kind = "response"
  /\ lastOutcome.id # NoValue
  /\ lastOutcome.id[1] # <<>>

(* C29: a FailedPost leaves the failure queue only after the transport has *)
(* accepted a publication for its account in the replay of its pair: no    *)
(* sweep, one with the simulation flag set included, removes an entry for  *)
(* which the transport was never invoked successfully.                     *)
C29_RemovedOnlyWhenAccepted ==
  [][ \A e \in Entries(failedTweets) :
        e \notin Entries(failedTweets')
          => /\ ReplayEnds
             /\ e = ReplayedPair
             /\ Accepted
             /\ calls[Len(calls)].accountNumber = e.accountNumber ]_vars

\* the calls of the replay recorded as r that the transport did not accept
Refused(r) == r.calls - (IF Published(r) THEN 1 ELSE 0)

(* C30: every retry sweep terminates, and when the transport has accepted  *)
(* every call and every queued account can be resolved, the failure queue  *)
(* is empty after the sweep, whatever entries it held, entries with an     *)
(* empty text or a text of more than 280 characters included.              *)
C30_SweepDrainsQueue ==
  /\ (Sweeping ~> spc \in {"returnedTrue", "returnedFalse"})
  /\ []( ( /\ spc = "returnedTrue"
           /\ \A i \in 1..Len(replayed) : Refused(replayed[i]) = 0
           /\ \A g \in 1..Len(tweetsByAccount) :
                ~Unresolvable(tweetsByAccount[g].accountNumber) )
         => failedTweets = <<>> )

====
